---------------------------- MODULE Spec2Model ----------------------------
(***************************************************************************)
(* A model of the geometry and layout core of GpxTrackPoster:              *)
(*   - ValueRange / QuantityRange (value_range.py, quantity_range.py)      *)
(*   - compute_grid and project (utils.py), as called by the drawers       *)
(* Floating point numbers are modelled as exact rationals <<n, d>> in      *)
(* lowest terms with d > 0; Optional[...] is None or the value itself.     *)
(***************************************************************************)
EXTENDS Integers, Sequences, FiniteSets, TLC

VARIABLES
    ranges,     \* the two range objects: class name -> [lower, upper]
    call,       \* the last call made on a range: operation, arguments, outcome
    grid,       \* the last grid computation: caller, arguments, outcome
    proj,       \* the last projection: arguments and outcome of project
    clock,      \* the last clock angle computation: times and angles
    calc,   \* the last call of a utility function: arguments and outcome
    poster, \* the Poster object, its input and the outcome of the last call on it
    track,      \* the two Track objects and the outcome of the last call on one of them
    units,      \* Units._instance and the threads inside Units()
    heat        \* the HeatmapDrawer and the outcome of the last call on it

vars == <<ranges, call, grid, proj, clock, calc, poster, track, units, heat>>
notRange == <<grid, proj, clock, calc, poster, track, units, heat>>
notGrid == <<ranges, call, proj, clock, calc, poster, track, units, heat>>
notProj == <<ranges, call, grid, clock, calc, poster, track, units, heat>>
notClock == <<ranges, call, grid, proj, calc, poster, track, units, heat>>
notCalc == <<ranges, call, grid, proj, clock, poster, track, units, heat>>
notPoster == <<ranges, call, grid, proj, clock, calc, track, units, heat>>
notTrack == <<ranges, call, grid, proj, clock, calc, poster, units, heat>>
notUnits == <<ranges, call, grid, proj, clock, calc, poster, track, heat>>
notHeat == <<ranges, call, grid, proj, clock, calc, poster, track, units>>

---------------------------------------------------------------------------
(* Bounds of the model *)

MaxVal == 2         \* values passed to extend / from_pair are 0..MaxVal
RatioDen == 2       \* ratios passed to interpolate are multiples of 1/RatioDen
MaxCount == 5       \* number of years (grid fields) is 0..MaxCount
MaxDim == 4         \* canvas width and height are 1..MaxDim
MaxPts == 3         \* a polyline passed to project has up to MaxPts points
MaxTracks == 3      \* a poster is given up to MaxTracks tracks
MaxTime == 2        \* start and end times of a track are 1..MaxTime
MaxCalls == 3       \* Units() is constructed up to MaxCalls times

---------------------------------------------------------------------------
(* Exact arithmetic standing for Python floats *)

Abs(x) == IF x < 0 THEN 0 - x ELSE x

RECURSIVE Gcd(_, _)
Gcd(a, b) == IF b = 0 THEN a ELSE Gcd(b, a % b)

Rat(n, d) ==
    LET g == Gcd(Abs(n), Abs(d))
        s == IF d < 0 THEN 0 - 1 ELSE 1
    IN  <<(s * n) \div g, (s * d) \div g>>

RatInt(n) == <<n, 1>>
RatAdd(a, b) == Rat(a[1] * b[2] + b[1] * a[2], a[2] * b[2])
RatSub(a, b) == Rat(a[1] * b[2] - b[1] * a[2], a[2] * b[2])
RatMul(a, b) == Rat(a[1] * b[1], a[2] * b[2])
RatDiv(a, b) == Rat(a[1] * b[2], a[2] * b[1])
RatLt(a, b) == a[1] * b[2] < b[1] * a[2]
RatLe(a, b) == a[1] * b[2] <= b[1] * a[2]
RatIsZero(a) == a[1] = 0
\* Python's min(a, b) and max(a, b): the first argument unless the second is
\* strictly smaller (larger).
RatMin(a, b) == IF RatLt(b, a) THEN b ELSE a
RatMax(a, b) == IF RatLt(a, b) THEN b ELSE a

---------------------------------------------------------------------------
(* ValueRange and QuantityRange: the two classes share every line of the   *)
(* methods below; a quantity is modelled by its magnitude in metres.       *)

None == <<>>
Classes == {"ValueRange", "QuantityRange"}

Values == {RatInt(k) : k \in 0..MaxVal}
ProbeValues == {Rat(k, 2) : k \in (0 - 2)..(2 * MaxVal + 2)}
Ratios == {Rat(k, RatioDen) : k \in (0 - 1)..(RatioDen + 1)}

\* __init__
RangeNew == [lower |-> None, upper |-> None]

\* Mutant: clear that forgets to reset _upper.
clear_KeepsUpper(r) == [lower |-> None, upper |-> r.upper]

\* clear
clear(r) == [lower |-> None, upper |-> None]

is_valid(r) == r.lower # None

diameter(r) == IF is_valid(r) THEN RatSub(r.upper, r.lower) ELSE RatInt(0)

contains(r, value) ==
    IF ~is_valid(r) THEN FALSE
    ELSE RatLe(r.lower, value) /\ RatLe(value, r.upper)

\* Mutant: extend that assigns the new value to _lower instead of the minimum.
extend_Narrowing(r, value) ==
    IF r.lower = None
    THEN [lower |-> value, upper |-> value]
    ELSE [lower |-> value, upper |-> RatMax(r.upper, value)]

extend(r, value) ==
    IF ~is_valid(r)
    THEN [lower |-> value, upper |-> value]
    ELSE [lower |-> RatMin(r.lower, value), upper |-> RatMax(r.upper, value)]

from_pair(value1, value2) == extend(extend(RangeNew, value1), value2)

\* Outcome of a call: err names the exception raised ("" when none is),
\* ret is the value returned.
NoError == ""
Raised(e) == [err |-> e, ret |-> None]
Returned(x) == [err |-> NoError, ret |-> x]

\* No call made yet on any range.
NoCall ==
    [op |-> "__init__", cls |-> "ValueRange", args |-> <<>>,
     pre |-> RangeNew, err |-> NoError, ret |-> None]

\* Nothing called yet (on a utility function, on a track).
NoCalc == [op |-> "none"]

\* Python's a / b
Quotient(a, b) ==
    IF RatIsZero(b) THEN Raised("ZeroDivisionError") ELSE Returned(RatDiv(a, b))

\* Mutant: interpolate without the validity check (None arithmetic raises TypeError).
interpolate_Unchecked(r, relative) ==
    IF r.lower = None THEN Raised("TypeError")
    ELSE Returned(RatAdd(r.lower, RatMul(relative, RatSub(r.upper, r.lower))))

\* Mutant: interpolate that scales the upper bound instead of the diameter.
interpolate_ScalesUpper(r, relative) ==
    IF r.lower = None THEN Raised("ValueError")
    ELSE Returned(RatAdd(r.lower, RatMul(relative, r.upper)))

interpolate(r, relative) ==
    IF ~is_valid(r) THEN Raised("ValueError")
    ELSE Returned(RatAdd(r.lower, RatMul(relative, RatSub(r.upper, r.lower))))

\* Mutant: relative_position without the clamp at the upper bound.
relative_position_NoUpperClamp(r, value) ==
    IF r.lower = None THEN Raised("ValueError")
    ELSE IF RatLe(value, r.lower) THEN Returned(RatInt(0))
    ELSE LET diff == RatSub(r.upper, r.lower)
         IN  IF RatIsZero(diff) THEN Returned(RatInt(0))
             ELSE Quotient(RatSub(value, r.lower), diff)

\* Mutant: relative_position that tests the upper bound before the lower bound.
relative_position_UpperFirst(r, value) ==
    IF r.lower = None THEN Raised("ValueError")
    ELSE IF RatLe(r.upper, value) THEN Returned(RatInt(1))
    ELSE IF RatLe(value, r.lower) THEN Returned(RatInt(0))
    ELSE LET diff == RatSub(r.upper, r.lower)
         IN  IF RatIsZero(diff) THEN Returned(RatInt(0))
             ELSE Quotient(RatSub(value, r.lower), diff)

relative_position(r, value) ==
    IF ~is_valid(r) THEN Raised("ValueError")
    ELSE IF RatLe(value, r.lower) THEN Returned(RatInt(0))
    ELSE IF RatLe(r.upper, value) THEN Returned(RatInt(1))
    ELSE LET diff == RatSub(r.upper, r.lower)
         IN  IF RatIsZero(diff) THEN Returned(RatInt(0))
             ELSE Quotient(RatSub(value, r.lower), diff)

---------------------------------------------------------------------------
(* XY (xy.py): a pair of floats with elementwise arithmetic *)

XY(x, y) == [x |-> x, y |-> y]
XYAdd(a, b) == XY(RatAdd(a.x, b.x), RatAdd(a.y, b.y))
XYSub(a, b) == XY(RatSub(a.x, b.x), RatSub(a.y, b.y))
XYMul(a, b) == XY(RatMul(a.x, b.x), RatMul(a.y, b.y))
XYScale(factor, a) == XY(RatMul(factor, a.x), RatMul(factor, a.y))

\* Mutant: always scales by the x component.
scale_to_max_value_ByX(self, max_value) ==
    LET factor == Quotient(max_value, self.x)
    IN  IF factor.err # NoError THEN factor
        ELSE Returned(XY(max_value, RatMul(factor.ret, self.y)))

\* XY.scale_to_max_value
scale_to_max_value(self, max_value) ==
    IF RatLt(self.y, self.x)
    THEN LET factor == Quotient(max_value, self.x)
         IN  IF factor.err # NoError THEN factor
             ELSE Returned(XY(max_value, RatMul(factor.ret, self.y)))
    ELSE LET factor == Quotient(max_value, self.y)
         IN  IF factor.err # NoError THEN factor
             ELSE Returned(XY(RatMul(factor.ret, self.x), max_value))

---------------------------------------------------------------------------
(* compute_grid (utils.py) and its caller ClockDrawer.draw *)

\* State of the search before the loops: min_waste, best_size, best_counts.
GridStart == [min_waste |-> RatInt(0 - 1), best_size |-> None, best_counts |-> None]

\* Mutant: the fit test adds the counts instead of multiplying them.
GridStep_SumGuard(count, dimensions, count_x, count_y, acc) ==
    IF count_x + count_y >= count
    THEN LET size_x == RatDiv(dimensions.x, RatInt(count_x))
             size_y == RatDiv(dimensions.y, RatInt(count_y))
             size == RatMin(size_x, size_y)
             waste == RatSub(RatMul(dimensions.x, dimensions.y),
                             RatMul(RatMul(RatInt(count), size), size))
         IN  IF RatLt(waste, RatInt(0)) THEN acc
             ELSE IF acc.best_size = None \/ RatLt(waste, acc.min_waste)
                  THEN [min_waste |-> waste, best_size |-> size,
                        best_counts |-> <<count_x, count_y>>]
                  ELSE acc
    ELSE acc

\* Mutant: a pair of equal waste replaces the best pair (<= for <).
GridStep_LastTie(count, dimensions, count_x, count_y, acc) ==
    IF count_x * count_y >= count
    THEN LET size_x == RatDiv(dimensions.x, RatInt(count_x))
             size_y == RatDiv(dimensions.y, RatInt(count_y))
             size == RatMin(size_x, size_y)
             waste == RatSub(RatMul(dimensions.x, dimensions.y),
                             RatMul(RatMul(RatInt(count), size), size))
         IN  IF RatLt(waste, RatInt(0)) THEN acc
             ELSE IF acc.best_size = None \/ RatLe(waste, acc.min_waste)
                  THEN [min_waste |-> waste, best_size |-> size,
                        best_counts |-> <<count_x, count_y>>]
                  ELSE acc
    ELSE acc

\* Mutant: a pair that wastes nothing is rejected too (<= 0 for < 0).
GridStep_RejectsExactFit(count, dimensions, count_x, count_y, acc) ==
    IF count_x * count_y >= count
    THEN LET size_x == RatDiv(dimensions.x, RatInt(count_x))
             size_y == RatDiv(dimensions.y, RatInt(count_y))
             size == RatMin(size_x, size_y)
             waste == RatSub(RatMul(dimensions.x, dimensions.y),
                             RatMul(RatMul(RatInt(count), size), size))
         IN  IF RatLe(waste, RatInt(0)) THEN acc
             ELSE IF acc.best_size = None \/ RatLt(waste, acc.min_waste)
                  THEN [min_waste |-> waste, best_size |-> size,
                        best_counts |-> <<count_x, count_y>>]
                  ELSE acc
    ELSE acc

\* The body of the inner loop for one pair (count_x, count_y).
GridStep(count, dimensions, count_x, count_y, acc) ==
    IF count_x * count_y >= count
    THEN LET size_x == RatDiv(dimensions.x, RatInt(count_x))
             size_y == RatDiv(dimensions.y, RatInt(count_y))
             size == RatMin(size_x, size_y)
             waste == RatSub(RatMul(dimensions.x, dimensions.y),
                             RatMul(RatMul(RatInt(count), size), size))
         IN  IF RatLt(waste, RatInt(0)) THEN acc
             ELSE IF acc.best_size = None \/ RatLt(waste, acc.min_waste)
                  THEN [min_waste |-> waste, best_size |-> size,
                        best_counts |-> <<count_x, count_y>>]
                  ELSE acc
    ELSE acc

\* The two nested loops, count_x outer and count_y inner, both over
\* range(1, count + 1); k numbers the iterations from 0.  An iteration
\* either leaves the best pair as it is or replaces it.
RECURSIVE GridLoop(_, _, _, _)
GridLoop(count, dimensions, k, acc) ==
    IF count <= 0 \/ k >= count * count THEN acc
    ELSE LET next == GridStep(count, dimensions,
                              (k \div count) + 1, (k % count) + 1, acc)
         IN  IF next = acc
             THEN GridLoop(count, dimensions, k + 1, acc)
             ELSE GridLoop(count, dimensions, k + 1, next)

compute_grid(count, dimensions) ==
    LET acc == GridLoop(count, dimensions, 0, GridStart)
    IN  [size |-> acc.best_size, counts |-> acc.best_counts]

RECURSIVE PlaceYears(_, _, _, _, _)

\* Mutant: the row ends one cell late (x > count_x for x >= count_x).
PlaceYears_LateWrap(years, count_x, x, y, cells) ==
    IF Len(cells) >= years THEN cells
    ELSE IF x + 1 > count_x
         THEN PlaceYears(years, count_x, 0, y + 1, Append(cells, <<x, y>>))
         ELSE PlaceYears(years, count_x, x + 1, y, Append(cells, <<x, y>>))

\* The loop of ClockDrawer.draw over the years: the cell (x, y) of each year.
PlaceYears(years, count_x, x, y, cells) ==
    IF Len(cells) >= years THEN cells
    ELSE IF x + 1 >= count_x
         THEN PlaceYears(years, count_x, 0, y + 1, Append(cells, <<x, y>>))
         ELSE PlaceYears(years, count_x, x + 1, y, Append(cells, <<x, y>>))

Counts == 0..MaxCount
Canvases == {XY(RatInt(w), RatInt(h)) : w \in 1..MaxDim, h \in 1..MaxDim}

\* No grid computed yet, for `count` fields on a canvas `dimensions`.
GridInput(count, dimensions) ==
    [op |-> "none", count |-> count, dimensions |-> dimensions,
     size |-> None, counts |-> None, err |-> NoError, cells |-> <<>>]

NoGrid == GridInput(0, XY(RatInt(1), RatInt(1)))

\* A direct call compute_grid(count, dimensions).
ComputeGrid ==
    LET res == compute_grid(grid.count, grid.dimensions)
    IN  /\ grid' = [grid EXCEPT !.op = "compute_grid",
                                !.size = res.size, !.counts = res.counts,
                                !.err = NoError, !.cells = <<>>]
        /\ UNCHANGED notGrid

\* ClockDrawer.draw(dr, g, size, offset) on a poster with grid.count years
\* and size = grid.dimensions.
\* poster.tracks is a list and poster.length_range_by_date a QuantityRange
\* (poster.py:73-75, 210), so neither of the two None tests holds.
ClockDraw ==
    LET years == grid.count
        res == compute_grid(years, grid.dimensions)
    IN  /\ grid' = [grid EXCEPT
                      !.op = "draw",
                      !.size = res.size, !.counts = res.counts,
                      !.err = IF res.counts = None THEN "Unable to compute grid."
                              ELSE NoError,
                      !.cells = IF res.counts = None THEN <<>>
                                ELSE PlaceYears(years, res.counts[1], 0, 0, <<>>)]
        /\ UNCHANGED notGrid

---------------------------------------------------------------------------
(* The Mercator projection and project (utils.py)                          *)
(* A LatLng is [lat, lng] in whole degrees; a LatLngRect is                 *)
(* [lat_lo, lat_hi, lng_lo, lng_hi] with lat_lo <= lat_hi, and lng_lo >     *)
(* lng_hi when the rectangle crosses the antimeridian.                      *)

lng2x(lng_deg) == RatAdd(Rat(lng_deg, 180), RatInt(1))

\* 0.5 - log(tan(pi / 4 * (1 + lat_deg / 90))) / pi, tabulated to three
\* decimals at the latitudes the model uses.
lat2y(lat_deg) ==
    CASE lat_deg = 0 - 60 -> Rat(919, 1000)
      [] lat_deg = 0 - 30 -> Rat(675, 1000)
      [] lat_deg = 0      -> Rat(500, 1000)
      [] lat_deg = 30     -> Rat(325, 1000)
      [] lat_deg = 60     -> Rat(81, 1000)

latlng2xy(latlng) == XY(lng2x(latlng.lng), lat2y(latlng.lat))

\* s2sphere.LatLngRect.contains(LatLng)
BBoxContains(bbox, latlng) ==
    /\ bbox.lat_lo <= latlng.lat /\ latlng.lat <= bbox.lat_hi
    /\ IF bbox.lng_lo <= bbox.lng_hi
       THEN bbox.lng_lo <= latlng.lng /\ latlng.lng <= bbox.lng_hi
       ELSE bbox.lng_lo <= latlng.lng \/ latlng.lng <= bbox.lng_hi

\* while d_x >= 2: d_x -= 2
RECURSIVE WhileAtLeastTwo(_)
WhileAtLeastTwo(d_x) ==
    IF RatLe(RatInt(2), d_x) THEN WhileAtLeastTwo(RatSub(d_x, RatInt(2))) ELSE d_x

\* while d_x < 0: d_x += 2
RECURSIVE WhileNegative(_)
WhileNegative(d_x) ==
    IF RatLt(d_x, RatInt(0)) THEN WhileNegative(RatAdd(d_x, RatInt(2))) ELSE d_x

ProjectWidth(bbox) ==
    WhileNegative(WhileAtLeastTwo(RatSub(lng2x(bbox.lng_hi), lng2x(bbox.lng_lo))))

ProjectHeight(bbox) ==
    LET diff == RatSub(lat2y(bbox.lat_hi), lat2y(bbox.lat_lo))
    IN  IF RatLt(diff, RatInt(0)) THEN RatSub(RatInt(0), diff) ELSE diff

\* scale = size.x / d_x if size.x / size.y <= d_x / d_y else size.y / d_y
ProjectScale(size, d_x, d_y) ==
    IF RatIsZero(size.y) \/ RatIsZero(d_y) THEN Raised("ZeroDivisionError")
    ELSE IF RatLe(RatDiv(size.x, size.y), RatDiv(d_x, d_y))
         THEN Quotient(size.x, d_x)
         ELSE Quotient(size.y, d_y)

\* offset + 0.5 * (size - scale * XY(d_x, -d_y)) - scale * XY(min_x, min_y)
ProjectOffset(bbox, size, offset, scale, d_x, d_y) ==
    XYSub(XYAdd(offset,
                XYScale(Rat(1, 2),
                        XYSub(size, XYScale(scale, XY(d_x, RatSub(RatInt(0), d_y)))))),
          XYScale(scale, XY(lng2x(bbox.lng_lo), lat2y(bbox.lat_lo))))

\* Mutant: a point outside the bounding box is skipped without closing the
\* segment being built.
RECURSIVE ProjectLine_NoBreak(_, _, _, _, _, _, _)
ProjectLine_NoBreak(bbox, offset, scale, latlngline, i, line, lines) ==
    IF i > Len(latlngline)
    THEN IF Len(line) > 0 THEN Append(lines, line) ELSE lines
    ELSE IF BBoxContains(bbox, latlngline[i])
         THEN LET xy == XYAdd(offset, XYScale(scale, latlng2xy(latlngline[i])))
              IN  ProjectLine_NoBreak(bbox, offset, scale, latlngline, i + 1,
                                      Append(line, <<xy.x, xy.y>>), lines)
         ELSE ProjectLine_NoBreak(bbox, offset, scale, latlngline, i + 1, line, lines)

\* The inner loop over the points of one polyline, from point i on: `line`
\* is the segment being built, `lines` the segments finished so far; the
\* segment left at the end of the polyline is kept when it is not empty.
RECURSIVE ProjectLine(_, _, _, _, _, _, _)
ProjectLine(bbox, offset, scale, latlngline, i, line, lines) ==
    IF i > Len(latlngline)
    THEN IF Len(line) > 0 THEN Append(lines, line) ELSE lines
    ELSE IF BBoxContains(bbox, latlngline[i])
         THEN LET xy == XYAdd(offset, XYScale(scale, latlng2xy(latlngline[i])))
              IN  ProjectLine(bbox, offset, scale, latlngline, i + 1,
                              Append(line, <<xy.x, xy.y>>), lines)
         ELSE IF Len(line) > 0
              THEN ProjectLine(bbox, offset, scale, latlngline, i + 1,
                               <<>>, Append(lines, line))
              ELSE ProjectLine(bbox, offset, scale, latlngline, i + 1, line, lines)

\* The outer loop over the polylines, from polyline k on.
RECURSIVE ProjectLines(_, _, _, _, _, _)
ProjectLines(bbox, offset, scale, latlnglines, k, lines) ==
    IF k > Len(latlnglines) THEN lines
    ELSE ProjectLines(bbox, offset, scale, latlnglines, k + 1,
                      ProjectLine(bbox, offset, scale, latlnglines[k], 1, <<>>, lines))

\* project(bbox, size, offset, latlnglines): the exception raised if any,
\* the list of projected segments, and the values of d_x, d_y, scale and
\* the shifted offset it computes on the way.
project(bbox, size, offset, latlnglines) ==
    LET d_x == ProjectWidth(bbox)
        d_y == ProjectHeight(bbox)
        scale == ProjectScale(size, d_x, d_y)
    IN  IF scale.err # NoError
        THEN [err |-> scale.err, ret |-> None, d_x |-> d_x, d_y |-> d_y,
              scale |-> None, offset |-> None]
        ELSE LET shifted == ProjectOffset(bbox, size, offset, scale.ret, d_x, d_y)
             IN  [err |-> NoError,
                  ret |-> ProjectLines(bbox, shifted, scale.ret, latlnglines, 1, <<>>),
                  d_x |-> d_x, d_y |-> d_y, scale |-> scale.ret,
                  offset |-> shifted]

\* Inputs of the model
BoxLats == {0 - 30, 0, 30, 60}
BoxLngs == {0 - 150, 0 - 30, 90, 150}
\* Rectangles with bounds among BoxLngs, and the rectangles that span all
\* longitudes (s2sphere: lng_lo = -180, lng_hi = 180), which the union of
\* track boxes and a forced centre with a large radius produce.
BBoxes ==
    {[lat_lo |-> a, lat_hi |-> b, lng_lo |-> c, lng_hi |-> d] :
        a \in BoxLats, b \in BoxLats, c \in BoxLngs, d \in BoxLngs}
    \cup {[lat_lo |-> a, lat_hi |-> b, lng_lo |-> 0 - 180, lng_hi |-> 180] :
              a \in BoxLats, b \in BoxLats}
LatLngRects == {b \in BBoxes : b.lat_lo <= b.lat_hi}
SamplePoints == {[lat |-> 30, lng |-> 150], [lat |-> 60, lng |-> 0 - 150]}
RECURSIVE SeqsUpTo(_, _)
SeqsUpTo(S, n) ==
    IF n = 0 THEN {<<>>}
    ELSE LET shorter == SeqsUpTo(S, n - 1)
         IN  shorter \cup {Append(q, e) : q \in shorter, e \in S}
Polylines == SeqsUpTo(SamplePoints, MaxPts)
\* The lists of polylines passed: one polyline, or one followed by a short one.
PolylineLists ==
    {<<l>> : l \in Polylines}
        \cup {<<l, m>> : l \in Polylines, m \in SeqsUpTo(SamplePoints, 1)}
Offsets == {XY(RatInt(0), RatInt(0)), XY(RatInt(1), RatInt(2))}
\* The canvas sizes passed: every width with the smallest and the largest height.
ProjSizes == {c \in Canvases : c.y \in {RatInt(1), RatInt(MaxDim)}}

\* project not called yet on these arguments.
ProjInput(bbox, size, offset, latlnglines) ==
    [op |-> "none", bbox |-> bbox, size |-> size, offset |-> offset,
     latlnglines |-> latlnglines,
     out |-> [err |-> NoError, ret |-> None, d_x |-> RatInt(0), d_y |-> RatInt(0),
              scale |-> None, offset |-> None]]

NoProj ==
    ProjInput([lat_lo |-> 0, lat_hi |-> 0, lng_lo |-> 0, lng_hi |-> 0],
              XY(RatInt(1), RatInt(1)), XY(RatInt(0), RatInt(0)), <<>>)

\* A call project(bbox, size, offset, latlnglines), as made by
\* HeatmapDrawer.draw for each track.
Project ==
    /\ proj' = [proj EXCEPT
                  !.op = "project",
                  !.out = project(proj.bbox, proj.size, proj.offset, proj.latlnglines)]
    /\ UNCHANGED notProj

---------------------------------------------------------------------------
(* Clock angles: get_time_in_seconds and get_clock_angle_from_time (imported *)
(* from gpxtrackposter.utils by tests/test_utils.py) and the angles that     *)
(* ClockDrawer._draw_circle_segment computes for a circle segment.           *)
(* A time of day is [hour, minute, second]; angles are in degrees.           *)

day_seconds == 60 * 60 * 12

SecondsOfDay(t) == (t.hour * 60 + t.minute) * 60 + t.second

\* Seconds since midnight, reduced modulo 12 hours.
get_time_in_seconds(t) == SecondsOfDay(t) % day_seconds

\* angle = seconds * (360 / 43200)
get_clock_angle_from_time(t) == Rat(360 * get_time_in_seconds(t), day_seconds)

\* if seconds > day_seconds: seconds -= day_seconds
ReduceOnce(seconds) == IF seconds > day_seconds THEN seconds - day_seconds ELSE seconds

\* The argument of math.radians for the start time (a1): 360.0 / day_seconds * seconds
SegmentStartAngle(start) == Rat(360 * ReduceOnce(SecondsOfDay(start)), day_seconds)

\* The argument of math.radians for the end time (a2), after the two tests.
SegmentEndAngle(end) == Rat(360 * ReduceOnce(ReduceOnce(SecondsOfDay(end))), day_seconds)

\* Every hour of the day, with a sample of minutes and seconds.
Times ==
    {[hour |-> h, minute |-> m, second |-> s] :
        h \in 0..23, m \in {0, 59}, s \in {0, 1, 59}}

\* No angle computed yet for a track that starts at `start` and ends at `end`.
ClockInput(start, end) ==
    [op |-> "none", start |-> start, end |-> end, a1 |-> None, a2 |-> None]

NoClock ==
    ClockInput([hour |-> 0, minute |-> 0, second |-> 0],
               [hour |-> 0, minute |-> 0, second |-> 0])

\* get_clock_angle_from_time of the start and of the end time.
GetClockAngle ==
    /\ clock' = [clock EXCEPT !.op = "get_clock_angle_from_time",
                              !.a1 = get_clock_angle_from_time(clock.start),
                              !.a2 = get_clock_angle_from_time(clock.end)]
    /\ UNCHANGED notClock

\* ClockDrawer._draw_circle_segment for a track from clock.start to clock.end.
DrawCircleSegment ==
    /\ clock' = [clock EXCEPT !.op = "_draw_circle_segment",
                              !.a1 = SegmentStartAngle(clock.start),
                              !.a2 = SegmentEndAngle(clock.end)]
    /\ UNCHANGED notClock

---------------------------------------------------------------------------
(* interpolate_color (utils.py) with the conversions of colour.Color it     *)
(* uses. A colour string is modelled by its <<red, green, blue>> bytes, an   *)
(* HSL colour is [hue, saturation, luminance] in floats.                     *)

\* colour.Color(color): the hue, saturation and luminance of an RGB colour
\* (colour.rgb2hsl).
rgb2hsl(rgb) ==
    LET r == Rat(rgb[1], 255)
        g == Rat(rgb[2], 255)
        b == Rat(rgb[3], 255)
        vmin == RatMin(RatMin(r, g), b)
        vmax == RatMax(RatMax(r, g), b)
        diff == RatSub(vmax, vmin)
        vsum == RatAdd(vmin, vmax)
        l == RatDiv(vsum, RatInt(2))
        part(c) == RatDiv(RatAdd(RatDiv(RatSub(vmax, c), RatInt(6)),
                                 RatDiv(diff, RatInt(2))), diff)
        h == IF r = vmax THEN RatSub(part(b), part(g))
             ELSE IF g = vmax THEN RatSub(RatAdd(Rat(1, 3), part(r)), part(b))
             ELSE RatSub(RatAdd(Rat(2, 3), part(g)), part(r))
    IN  IF RatIsZero(diff) THEN [hue |-> RatInt(0), saturation |-> RatInt(0), luminance |-> l]
        ELSE [hue |-> IF RatLt(h, RatInt(0)) THEN RatAdd(h, RatInt(1))
                      ELSE IF RatLt(RatInt(1), h) THEN RatSub(h, RatInt(1)) ELSE h,
              saturation |-> IF RatLt(l, Rat(1, 2)) THEN RatDiv(diff, vsum)
                             ELSE RatDiv(diff, RatSub(RatInt(2), vsum)),
              luminance |-> l]

\* colour._hue2rgb: one channel from the two bounds and a hue.
RECURSIVE hue2rgb(_, _, _)
hue2rgb(v1, v2, vH) ==
    IF RatLt(vH, RatInt(0)) THEN hue2rgb(v1, v2, RatAdd(vH, RatInt(1)))
    ELSE IF RatLt(RatInt(1), vH) THEN hue2rgb(v1, v2, RatSub(vH, RatInt(1)))
    ELSE IF RatLt(RatMul(RatInt(6), vH), RatInt(1))
         THEN RatAdd(v1, RatMul(RatMul(RatSub(v2, v1), RatInt(6)), vH))
    ELSE IF RatLt(RatMul(RatInt(2), vH), RatInt(1)) THEN v2
    ELSE IF RatLt(RatMul(RatInt(3), vH), RatInt(2))
         THEN RatAdd(v1, RatMul(RatMul(RatSub(v2, v1), RatSub(Rat(2, 3), vH)), RatInt(6)))
    ELSE v1

\* colour.Color(hue=, saturation=, luminance=).hex_l: the bytes of the long
\* hex string (colour.hsl2rgb, then int(c * 255 + 0.5 - FLOAT_ERROR) for each
\* channel); hsl2rgb raises ValueError for a saturation or luminance outside
\* [0, 1].
hex_l(hsl) ==
    LET s == hsl.saturation
        l == hsl.luminance
        v2 == IF RatLt(l, Rat(1, 2)) THEN RatMul(l, RatAdd(RatInt(1), s))
              ELSE RatSub(RatAdd(l, s), RatMul(s, l))
        v1 == RatSub(RatMul(RatInt(2), l), v2)
        rgb == IF RatIsZero(s) THEN <<l, l, l>>
               ELSE <<hue2rgb(v1, v2, RatAdd(hsl.hue, Rat(1, 3))),
                      hue2rgb(v1, v2, hsl.hue),
                      hue2rgb(v1, v2, RatSub(hsl.hue, Rat(1, 3)))>>
        byte(c) == LET x == RatAdd(RatMul(c, RatInt(255)), Rat(1, 2))
                   IN  IF x[2] = 1 THEN x[1] - 1 ELSE x[1] \div x[2]
        inside(c) == RatLe(RatInt(0), c) /\ RatLe(c, RatInt(1))
    IN  IF ~inside(s) \/ ~inside(l) THEN Raised("ValueError")
        ELSE Returned(<<byte(rgb[1]), byte(rgb[2]), byte(rgb[3])>>)

\* The interpolation of the three channels at a ratio (lines 173-178).
Blend(c1, c2, ratio) ==
    LET mix(a, b) == RatAdd(RatMul(RatSub(RatInt(1), ratio), a), RatMul(ratio, b))
    IN  [hue |-> mix(c1.hue, c2.hue),
         saturation |-> mix(c1.saturation, c2.saturation),
         luminance |-> mix(c1.luminance, c2.luminance)]

\* Mutant: the ratio is not clamped at 0.
interpolate_color_NoLowerClamp(color1, color2, ratio) ==
    hex_l(Blend(rgb2hsl(color1), rgb2hsl(color2),
                IF RatLt(RatInt(1), ratio) THEN RatInt(1) ELSE ratio))

interpolate_color(color1, color2, ratio) ==
    LET clamped == IF RatLt(ratio, RatInt(0)) THEN RatInt(0)
                   ELSE IF RatLt(RatInt(1), ratio) THEN RatInt(1) ELSE ratio
    IN  hex_l(Blend(rgb2hsl(color1), rgb2hsl(color2), clamped))

\* Black, white, grey, red, blue, yellow and the poster's default track color.
Colors ==
    {<<0, 0, 0>>, <<255, 255, 255>>, <<127, 127, 127>>, <<255, 0, 0>>,
     <<0, 0, 255>>, <<255, 255, 0>>, <<77, 210, 255>>}
ColorRatios == Ratios \cup {Rat(1, 4), RatInt(0 - 100), RatInt(12345)}

\* A call interpolate_color(color1, color2, ratio).
InterpolateColor ==
    /\ calc.op = "none"
    /\ calc' = [calc EXCEPT
                  !.op = "interpolate_color",
                  !.out = interpolate_color(calc.args[1], calc.args[2], calc.args[3])]
    /\ UNCHANGED notCalc

\* The components of an XY and the maximum values passed to scale_to_max_value.
Components == {RatInt(k) : k \in (0 - 2)..MaxDim}

\* A call self.scale_to_max_value(max_value) of an XY.
ScaleToMaxValue ==
    /\ calc.op = "none"
    /\ calc' = [calc EXCEPT
                  !.op = "scale_to_max_value",
                  !.out = scale_to_max_value(calc.args[1], calc.args[2])]
    /\ UNCHANGED notCalc

---------------------------------------------------------------------------
(* Poster (poster.py): set_tracks, _compute_track_statistics and the draw   *)
(* methods of the drawers as far as they decide whether there is anything   *)
(* to draw. A track is [start, length]: the date [year, month, day] of its  *)
(* start time and its length in metres. A dict is the sequence of its       *)
(* [key, val] items in insertion order.                                     *)

\* datetime.isocalendar(): <<ISO year, ISO week, ISO weekday>> of a date.
isocalendar(date) ==
    LET leap(y) == (y % 4 = 0 /\ y % 100 # 0) \/ y % 400 = 0
        before_year(y) ==
            365 * (y - 1) + ((y - 1) \div 4) - ((y - 1) \div 100) + ((y - 1) \div 400)
        before_month(y, m) ==
            <<0, 31, 59, 90, 120, 151, 181, 212, 243, 273, 304, 334>>[m]
                + (IF m > 2 /\ leap(y) THEN 1 ELSE 0)
        ordinal(y, m, d) == before_year(y) + before_month(y, m) + d
        week1monday(y) ==
            LET firstday == ordinal(y, 1, 1)
                firstweekday == (firstday + 6) % 7
            IN  IF firstweekday > 3 THEN firstday - firstweekday + 7
                ELSE firstday - firstweekday
        today == ordinal(date.year, date.month, date.day)
        week == (today - week1monday(date.year)) \div 7
    IN  IF week < 0
        THEN <<date.year - 1, ((today - week1monday(date.year - 1)) \div 7) + 1,
               ((today - week1monday(date.year - 1)) % 7) + 1>>
        ELSE IF week >= 52 /\ today >= week1monday(date.year + 1)
             THEN <<date.year + 1, 1, ((today - week1monday(date.year + 1)) % 7) + 1>>
             ELSE <<date.year, week + 1, ((today - week1monday(date.year)) % 7) + 1>>

\* YearRange: None while empty, else [from_year, to_year].
\* YearRange.add(t)
YearRangeAdd(years, date) ==
    IF years = None THEN [from_year |-> date.year, to_year |-> date.year]
    ELSE [from_year |-> IF date.year < years.from_year THEN date.year ELSE years.from_year,
          to_year |-> IF date.year > years.to_year THEN date.year ELSE years.to_year]

\* YearRange.contains(t)
YearRangeContains(years, date) ==
    years = None \/ (years.from_year <= date.year /\ date.year <= years.to_year)

\* YearRange.count()
YearRangeCount(years) ==
    IF years = None THEN 0 ELSE years.to_year - years.from_year + 1

\* Poster._compute_years, from track i on.
RECURSIVE ComputeYears(_, _, _)
ComputeYears(tracks, i, years) ==
    IF i > Len(tracks) THEN years
    ELSE ComputeYears(tracks, i + 1, YearRangeAdd(years, tracks[i].start))

\* dict lookups and updates on a sequence of items.
DictKeys(dict) == {dict[i].key : i \in 1..Len(dict)}
DictGet(dict, key, default) ==
    IF key \in DictKeys(dict)
    THEN dict[CHOOSE i \in 1..Len(dict) : dict[i].key = key].val
    ELSE default
DictPut(dict, key, val) ==
    IF key \in DictKeys(dict)
    THEN [i \in 1..Len(dict) |-> IF dict[i].key = key THEN [key |-> key, val |-> val]
                                 ELSE dict[i]]
    ELSE Append(dict, [key |-> key, val |-> val])

\* sum(t.length() for t in tracks), from track i on.
RECURSIVE SumLengths(_, _)
SumLengths(tracks, i) ==
    IF i > Len(tracks) THEN RatInt(0)
    ELSE RatAdd(tracks[i].length, SumLengths(tracks, i + 1))

\* The constructed Poster (__init__), about to be given the tracks `arg`.
PosterNew(arg) ==
    [op |-> "__init__", arg |-> arg, err |-> NoError, ret |-> None,
     tracks |-> <<>>, tracks_by_date |-> <<>>, year_tracks_date_count_dict |-> <<>>,
     length_range |-> RangeNew, length_range_by_date |-> RangeNew,
     total_length_year_dict |-> <<>>, years |-> None]

NoPoster == PosterNew(<<>>)

RECURSIVE SetTracksLoop(_, _, _)

\* Mutant: the loop counts every track of a year, not every new date.
SetTracksLoop_CountsTracks(tracks, i, self) ==
    IF i > Len(tracks) THEN self
    ELSE LET trk == tracks[i]
             text_date == <<trk.start.year, trk.start.month, trk.start.day>>
             year == trk.start.year
         IN  SetTracksLoop(tracks, i + 1,
                [self EXCEPT
                   !.year_tracks_date_count_dict =
                       DictPut(@, year, DictGet(@, year, 0) + 1),
                   !.tracks_by_date =
                       DictPut(@, text_date, Append(DictGet(@, text_date, <<>>), trk)),
                   !.length_range = extend(@, trk.length)])

\* The first loop of set_tracks (lines 216-224), from track i on.
SetTracksLoop(tracks, i, self) ==
    IF i > Len(tracks) THEN self
    ELSE LET trk == tracks[i]
             text_date == <<trk.start.year, trk.start.month, trk.start.day>>
             year == trk.start.year
             seen == text_date \in DictKeys(self.tracks_by_date)
         IN  IF ~YearRangeContains(self.years, trk.start)
             THEN SetTracksLoop(tracks, i + 1, self)
             ELSE SetTracksLoop(tracks, i + 1,
                    [self EXCEPT
                       !.year_tracks_date_count_dict =
                           IF seen THEN @
                           ELSE DictPut(@, year, DictGet(@, year, 0) + 1),
                       !.tracks_by_date =
                           DictPut(@, text_date, Append(DictGet(@, text_date, <<>>), trk)),
                       !.length_range = extend(@, trk.length)])

\* The second loop of set_tracks (lines 225-227), from item i on.
RECURSIVE ByDateLoop(_, _, _)
ByDateLoop(items, i, range) ==
    IF i > Len(items) THEN range
    ELSE ByDateLoop(items, i + 1, extend(range, SumLengths(items[i].val, 1)))

\* Mutant: set_tracks that extends length_range_by_date by every single track.
set_tracks_ByTrack(self, tracks) ==
    LET cleared == [self EXCEPT !.tracks = tracks,
                                !.tracks_by_date = <<>>,
                                !.length_range = clear(@),
                                !.length_range_by_date = clear(@),
                                !.year_tracks_date_count_dict = <<>>,
                                !.years = ComputeYears(tracks, 1, None)]
        filled == SetTracksLoop(tracks, 1, cleared)
    IN  [filled EXCEPT !.length_range_by_date = filled.length_range]

\* Mutant: set_tracks that does not clear the two dicts.
set_tracks_KeepsDicts(self, tracks) ==
    LET cleared == [self EXCEPT !.tracks = tracks,
                                !.length_range = clear(@),
                                !.length_range_by_date = clear(@),
                                !.years = ComputeYears(tracks, 1, None)]
        filled == SetTracksLoop(tracks, 1, cleared)
    IN  [filled EXCEPT
           !.length_range_by_date = ByDateLoop(filled.tracks_by_date, 1, @)]

\* Poster.set_tracks
set_tracks(self, tracks) ==
    LET cleared == [self EXCEPT !.tracks = tracks,
                                !.tracks_by_date = <<>>,
                                !.length_range = clear(@),
                                !.length_range_by_date = clear(@),
                                !.year_tracks_date_count_dict = <<>>,
                                !.years = ComputeYears(tracks, 1, None)]
        filled == SetTracksLoop(tracks, 1, cleared)
    IN  [filled EXCEPT
           !.length_range_by_date = ByDateLoop(filled.tracks_by_date, 1, @)]

\* The loop of _compute_track_statistics (lines 418-423), from track i on.
RECURSIVE StatisticsLoop(_, _, _)
StatisticsLoop(tracks, i, acc) ==
    IF i > Len(tracks) THEN acc
    ELSE LET t == tracks[i]
         IN  StatisticsLoop(tracks, i + 1,
               [total_length |-> RatAdd(acc.total_length, t.length),
                total_length_year_dict |->
                    DictPut(acc.total_length_year_dict, t.start.year,
                            RatAdd(DictGet(acc.total_length_year_dict, t.start.year,
                                           RatInt(0)), t.length)),
                length_range |-> extend(acc.length_range, t.length),
                weeks |-> DictPut(acc.weeks, <<t.start.year, isocalendar(t.start)[2]>>, 1)])

\* Poster._compute_track_statistics: the tuple returned and the dict updated.
compute_track_statistics(self) ==
    LET acc == StatisticsLoop(self.tracks, 1,
                   [total_length |-> RatInt(0), total_length_year_dict |-> <<>>,
                    length_range |-> RangeNew, weeks |-> <<>>])
        average_length == IF Len(self.tracks) > 0
                          THEN RatDiv(acc.total_length, RatInt(Len(self.tracks)))
                          ELSE RatInt(0)
    IN  [total_length_year_dict |-> acc.total_length_year_dict,
         ret |-> <<acc.total_length, average_length, acc.length_range, Len(acc.weeks)>>]

\* The error ClockDrawer.draw raises, if any, on the area Poster.draw gives it.
\* poster.tracks is a list, empty or not, and poster.length_range_by_date a
\* QuantityRange (poster.py:73-75, 210), so neither `is None` test of lines
\* 72-75 holds and the first thing that can fail is the grid.
ClockDrawerError(self) ==
    LET size == XY(RatInt(200 - 10 - 10), RatInt(300 - 30 - 30))
        years == YearRangeCount(self.years)
    IN  IF compute_grid(years, size).counts = None THEN "Unable to compute grid."
        ELSE NoError

\* utils.make_key_times: 0, 1/n, 2/n, ... while below 1, then 1, each rounded
\* to two decimals (to the even neighbour on a tie). 1 / 0 raises.
make_key_times(year_count) ==
    LET round(x) ==
            LET scaled == RatMul(x, RatInt(100))
                floor == scaled[1] \div scaled[2]
                rest == RatSub(scaled, RatInt(floor))
                up == \/ RatLt(Rat(1, 2), rest)
                      \/ rest = Rat(1, 2) /\ floor % 2 = 1
            IN  Rat(IF up THEN floor + 1 ELSE floor, 100)
    IN  IF year_count = 0 THEN Raised("ZeroDivisionError")
        ELSE Returned([k \in 1..(year_count + 1) |->
                          IF k <= year_count THEN round(Rat(k - 1, year_count))
                          ELSE round(RatInt(1))])

\* ClockDrawer._draw_year (hour lines off): the exception raised, if any,
\* the circle segments drawn, each with its animation values and key times,
\* and the poster, whose year_tracks_date_count_dict, a defaultdict, gets
\* the key `year` when it is read. The loop visits the days of the year in
\* calendar order and asks for the key times on each of them, the first
\* included; the i-th day that has tracks draws a segment whose values are
\* i times "0", then ";", then key_times_len - i times "1".
draw_year(self, year, with_animation) ==
    LET counts == self.year_tracks_date_count_dict
        year_count == DictGet(counts, year, 0)
        read == [self EXCEPT !.year_tracks_date_count_dict =
                                 IF year \in DictKeys(counts) THEN counts
                                 ELSE DictPut(counts, year, 0)]
        key_times_list == make_key_times(year_count)
        key_times_len == Len(key_times_list.ret)
        days == {d \in DictKeys(self.tracks_by_date) : d[1] = year}
        Earlier(a, b) == a[2] < b[2] \/ (a[2] = b[2] /\ a[3] < b[3])
        Day(i) == CHOOSE d \in days : Cardinality({e \in days : Earlier(e, d)}) = i - 1
        AnimationValues(animate_index) ==
            IF ~with_animation THEN <<>>
            ELSE [k \in 1..animate_index |-> "0"]
                 \o (IF key_times_len > animate_index
                     THEN [k \in 1..(key_times_len - animate_index) |-> "1"]
                     ELSE <<"">>)
    IN  IF key_times_list.err # NoError
        THEN [err |-> key_times_list.err, segments |-> <<>>, self |-> read]
        ELSE [err |-> NoError, self |-> read,
              segments |-> [i \in 1..Cardinality(days) |->
                               [date |-> Day(i), animated |-> with_animation,
                                values |-> AnimationValues(i),
                                key_times |-> key_times_list.ret]]]

\* The loop of ClockDrawer.draw over poster.years, from `year` on; the first
\* exception ends it.
RECURSIVE DrawYears(_, _, _, _)
DrawYears(self, year, with_animation, segments) ==
    IF self.years = None \/ year > self.years.to_year
    THEN [err |-> NoError, segments |-> segments, self |-> self]
    ELSE LET drawn == draw_year(self, year, with_animation)
         IN  IF drawn.err # NoError
             THEN [err |-> drawn.err, segments |-> segments, self |-> drawn.self]
             ELSE DrawYears(drawn.self, year + 1, with_animation,
                            segments \o drawn.segments)

\* The error HeatmapDrawer.draw raises at its entry, if any.
HeatmapDrawerError(self) ==
    IF Len(self.tracks) = 0 THEN "No tracks to draw." ELSE NoError

\* Dates around the turn of the year 2018/2019 and one in 2020 (tracks in 2018
\* and 2020 only leave the year 2019 of the range empty), and the tracks of
\* the model.
SampleDates ==
    {[year |-> 2018, month |-> 1, day |-> 1], [year |-> 2018, month |-> 1, day |-> 2],
     [year |-> 2018, month |-> 12, day |-> 31], [year |-> 2019, month |-> 1, day |-> 1],
     [year |-> 2020, month |-> 1, day |-> 7]}
SampleTracks ==
    {[start |-> d, length |-> RatInt(1000 * k)] : d \in SampleDates, k \in 1..2}

\* poster.set_tracks(tracks); poster.arg keeps the list of the last call.
SetTracks(tracks) ==
    /\ poster' = [set_tracks(poster, tracks) EXCEPT
                    !.op = "set_tracks", !.arg = tracks, !.err = NoError, !.ret = None]
    /\ UNCHANGED notPoster

\* poster._compute_track_statistics(), as called by Poster._draw_footer
ComputeTrackStatistics ==
    LET res == compute_track_statistics(poster)
    IN  /\ poster' = [poster EXCEPT
                        !.op = "_compute_track_statistics", !.err = NoError,
                        !.ret = res.ret,
                        !.total_length_year_dict = res.total_length_year_dict]
        /\ UNCHANGED notPoster

\* ClockDrawer.draw on the poster, poster.with_animation being set or not:
\* the grid, then the years; poster.ret keeps the segments drawn.
ClockDrawerDraw(with_animation) ==
    LET err == ClockDrawerError(poster)
        drawn == DrawYears(poster, poster.years.from_year, with_animation, <<>>)
    IN  /\ poster' = IF err # NoError
                     THEN [poster EXCEPT !.op = "ClockDrawer.draw", !.err = err,
                                         !.ret = None]
                     ELSE [drawn.self EXCEPT !.op = "ClockDrawer.draw",
                                             !.err = drawn.err,
                                             !.ret = drawn.segments]
        /\ UNCHANGED notPoster

\* HeatmapDrawer.draw on the poster
HeatmapDrawerDraw ==
    /\ poster' = [poster EXCEPT !.op = "HeatmapDrawer.draw",
                                !.err = HeatmapDrawerError(poster), !.ret = None]
    /\ UNCHANGED notPoster

---------------------------------------------------------------------------
(* Track (track.py): two Track objects "a" and "b". A time is None or a     *)
(* number (kept like a float), a polyline a sequence of LatLng.             *)

TrackIds == {"a", "b"}

\* Optional[datetime.datetime]: None or a time, counted from some origin.
OptionalTimes == {None} \cup {RatInt(t) : t \in 1..MaxTime}

\* Mutant: the test the docstring describes, at least one of the two times.
has_time_Either(self) == self.start_time # None \/ self.end_time # None

\* Track.has_time
has_time(self) == self.start_time # None /\ self.end_time # None

\* Mutant: append that takes the other track's length instead of adding it.
append_ReplacesLength(self, other, optimized) ==
    IF other.end_time = None /\ ~optimized
    THEN [err |-> "AssertionError", self |-> self]
    ELSE [err |-> NoError,
          self |-> [self EXCEPT
                      !.end_time = other.end_time,
                      !.polylines = @ \o other.polylines,
                      !.length_meters = other.length_meters,
                      !.file_names = @ \o other.file_names,
                      !.special = @ \/ other.special]]

\* Track.append: the exception raised, if any, and self after the call.
\* other.end_time() asserts that the end time is set; `optimized` tells
\* whether assertions are compiled away (python -O).
append(self, other, optimized) ==
    IF other.end_time = None /\ ~optimized
    THEN [err |-> "AssertionError", self |-> self]
    ELSE [err |-> NoError,
          self |-> [self EXCEPT
                      !.end_time = other.end_time,
                      !.polylines = @ \o other.polylines,
                      !.length_meters = RatAdd(@, other.length_meters),
                      !.file_names = @ \o other.file_names,
                      !.special = @ \/ other.special]]

\* The Track objects the model starts from: Track() with a file name, the
\* times not set yet, and a length, polylines and the special flag as the
\* loaders set them.
TrackObjects(file_name, point) ==
    {[file_names |-> <<file_name>>, polylines |-> lines, start_time |-> None,
      end_time |-> None, length_meters |-> RatInt(1000 * km), special |-> sp] :
        lines \in {<<>>, <<<<point>>>>}, km \in 0..1, sp \in BOOLEAN}

\* What a call leaves in `track`: the call, the exception raised, the objects
\* after it and, for append, the objects before it (`pre`; the setters, whose
\* effect is a single assignment, keep no copy).
TrackCalled(op, self, arg, err, pre, objs) ==
    [op |-> op, self |-> self, arg |-> arg, err |-> err, pre |-> pre, objs |-> objs]

\* track.set_start_time(value)
SetStartTime(id, value) ==
    LET objs == [track.objs EXCEPT ![id].start_time = value]
    IN  /\ track' = TrackCalled("set_start_time", id, value, NoError, objs, objs)
        /\ UNCHANGED notTrack

\* track.set_end_time(value)
SetEndTime(id, value) ==
    LET objs == [track.objs EXCEPT ![id].end_time = value]
    IN  /\ track' = TrackCalled("set_end_time", id, value, NoError, objs, objs)
        /\ UNCHANGED notTrack

\* self.append(other) for two different tracks; a track holds the file names
\* of at most MaxTracks files.
AppendTrack(id, other, optimized) ==
    /\ id # other
    /\ Len(track.objs[id].file_names) + Len(track.objs[other].file_names) <= MaxTracks
    /\ LET res == append(track.objs[id], track.objs[other], optimized)
       IN  track' = TrackCalled("append", id, other, res.err, track.objs,
                                [track.objs EXCEPT ![id] = res.self])
    /\ UNCHANGED notTrack

---------------------------------------------------------------------------
(* Track.load_gpx (track.py) and the Units singleton (units.py), as used by *)
(* the main thread and by the threads that load tracks.                     *)

\* What load_gpx meets on disk. The file is missing, or it is there with:
\* stat_ok / readable, whether os.path.getsize / open are permitted; size,
\* its size in bytes; xml, what gpxpy.parse makes of it ("ok", "syntax" for
\* GPXXMLSyntaxException, "other" for any other exception, be it a
\* UnicodeDecodeError or a GPXException); start / end, gpx.get_time_bounds();
\* length, gpx.length_2d() in metres; segments, the points of its segments.
GpxFiles ==
    {[name |-> <<"tracks", "a.gpx">>, exists |-> FALSE, stat_ok |-> TRUE,
      size |-> 0, readable |-> TRUE, xml |-> "ok",
      start |-> None, end |-> None, length |-> RatInt(0), segments |-> <<>>]}
    \cup
    {[name |-> <<"tracks", "a.gpx">>, exists |-> TRUE, stat_ok |-> p1,
      size |-> sz, readable |-> p2, xml |-> x,
      start |-> s, end |-> e, length |-> RatInt(1000 * km),
      segments |-> <<<<[lat |-> 30, lng |-> 150]>>>>] :
        p1 \in BOOLEAN, sz \in 0..1, p2 \in BOOLEAN,
        x \in {"ok", "syntax", "other"},
        s \in {None, RatInt(1)}, e \in {None, RatInt(1)}, km \in 0..1}

\* The body of the try block of load_gpx on a new Track, _load_gpx_data
\* included (timezone_adjuster is None): the exception it raises, if any,
\* and the track as the body leaves it.
TryLoadGpx(file) ==
    LET new == [file_names |-> <<file.name[2]>>, polylines |-> <<>>,
                start_time |-> None, end_time |-> None,
                length_meters |-> RatInt(0), special |-> FALSE]
        timed == [new EXCEPT !.start_time = file.start, !.end_time = file.end]
        measured == [timed EXCEPT !.length_meters = file.length]
        Raise(type, msg, self) == [type |-> type, msg |-> msg, self |-> self]
    IN  IF ~file.exists THEN Raise("FileNotFoundError", "", new)
        ELSE IF ~file.stat_ok THEN Raise("PermissionError", "", new)
        ELSE IF file.size = 0 THEN Raise("TrackLoadError", "Empty GPX file", new)
        ELSE IF ~file.readable THEN Raise("PermissionError", "", new)
        ELSE IF file.xml = "syntax" THEN Raise("GPXXMLSyntaxException", "", new)
        ELSE IF file.xml # "ok" THEN Raise("GPXException", "", new)
        ELSE IF ~has_time(timed)
             THEN Raise("TrackLoadError", "Track has no start or end time.", timed)
        ELSE IF RatLe(measured.length_meters, RatInt(0))
             THEN Raise("TrackLoadError", "Track is empty.", measured)
        ELSE Raise(NoError, "", [measured EXCEPT !.polylines = @ \o file.segments])

\* Mutant: load_gpx without the last handler, `except Exception`.
load_gpx_NoCatchAll(file) ==
    LET body == TryLoadGpx(file)
        Chained(msg) == [body EXCEPT !.type = "TrackLoadError", !.msg = msg]
    IN  IF body.type = "GPXXMLSyntaxException" THEN Chained("Failed to parse GPX.")
        ELSE IF body.type = "PermissionError"
             THEN Chained("Cannot load GPX (bad permissions)")
        ELSE body

\* Track().load_gpx(file_name, None): the except clauses in their order.
\* Every exception the body raises is an Exception, so the last clause
\* takes what the first three leave.
load_gpx(file) ==
    LET body == TryLoadGpx(file)
        Chained(msg) == [body EXCEPT !.type = "TrackLoadError", !.msg = msg]
    IN  IF body.type \in {NoError, "TrackLoadError"} THEN body
        ELSE IF body.type = "GPXXMLSyntaxException" THEN Chained("Failed to parse GPX.")
        ELSE IF body.type = "PermissionError"
             THEN Chained("Cannot load GPX (bad permissions)")
        ELSE Chained("Something went wrong when loading GPX.")

\* The main thread and the threads that load tracks.
Threads == {"main", "loader1", "loader2"}

\* Units._instance before the first Units(): None, written 0 (a registry is
\* the number of its creation). pc tells which threads are inside
\* Units.__init__ between the test and the assignment; calls counts the
\* constructions begun and assigned the assignments to Units._instance.
NoUnits ==
    [instance |-> 0, created |-> 0, assigned |-> 0, calls |-> 0,
     pc |-> [t \in Threads |-> "idle"]]

\* A loader thread constructs a Track and loads a file into it.
\* Track.__init__ keeps the length as a float and calls no Units().
LoadGpx(t, file) ==
    /\ t # "main"
    /\ units.pc[t] = "idle"
    /\ LET res == load_gpx(file)
       IN  track' = [op |-> "load_gpx", self |-> t, arg |-> file,
                     err |-> res.type, msg |-> res.msg, objs |-> res.self]
    /\ UNCHANGED notTrack

\* Thread t begins Units(): the test `if not Units._instance`.
UnitsTest(t) ==
    /\ units.pc[t] = "idle"
    /\ units.calls < MaxCalls
    /\ units' = [units EXCEPT !.calls = @ + 1,
                              !.pc[t] = IF units.instance = 0 THEN "create" ELSE "idle"]
    /\ UNCHANGED notUnits

\* Thread t, having found no instance, creates a registry and assigns it:
\* `Units._instance = pint.UnitRegistry()`.
UnitsAssign(t) ==
    /\ units.pc[t] = "create"
    /\ units' = [units EXCEPT !.created = @ + 1, !.instance = units.created + 1,
                              !.assigned = @ + 1, !.pc[t] = "idle"]
    /\ UNCHANGED notUnits

---------------------------------------------------------------------------

(* HeatmapDrawer (heatmap_drawer.py): the arguments it validates and keeps  *)
(* and the line widths it derives from them. A string of comma-separated    *)
(* numbers is the sequence of its fields, a field being the number float()  *)
(* reads from it or None when float() raises ValueError; the empty sequence *)
(* stands for None and for the empty string, which the code treats alike.   *)

\* HeatmapDrawer.__init__: the fields set by fetch_args and the presets of
\* the automatic line widths, as (transparency, width) pairs.
NoHeat ==
    [op |-> "__init__", arg |-> None, err |-> NoError, ret |-> None,
     center |-> None, radius |-> None, line_width |-> None,
     tile_provider |-> None, bg_max_size |-> 1200, renderer |-> "pillow",
     low |-> RatInt(10), upp |-> RatInt(1000),
     lower |-> <<<<Rat(10, 100), RatInt(5)>>, <<Rat(20, 100), RatInt(2)>>,
                 <<RatInt(1), Rat(30, 100)>>>>,
     upper |-> <<<<Rat(2, 100), Rat(5, 10)>>, <<Rat(5, 100), Rat(2, 10)>>,
                 <<RatInt(1), Rat(5, 100)>>>>]

\* HeatmapDrawer.validate_heatmap_center: the exception raised, if any, the
\* value returned and the drawer after the call.
validate_heatmap_center(self, heatmap_center) ==
    LET Bad == [err |-> "Not a valid LAT,LNG pair", ret |-> None, self |-> self]
        lat == heatmap_center[1]
        lng == heatmap_center[2]
    IN  IF heatmap_center # <<>>
        THEN IF Len(heatmap_center) # 2 THEN Bad
             ELSE IF lat = None \/ lng = None THEN Bad
             ELSE IF \/ ~(RatLe(RatInt(0 - 90), lat) /\ RatLe(lat, RatInt(90)))
                     \/ ~(RatLe(RatInt(0 - 180), lng) /\ RatLe(lng, RatInt(180)))
                  THEN Bad
             ELSE [err |-> NoError, ret |-> <<lat, lng>>,
                   self |-> [self EXCEPT !.center = <<lat, lng>>]]
        ELSE [err |-> NoError, ret |-> self.center, self |-> self]

\* HeatmapDrawer.validate_heatmap_radius; `if heatmap_radius` is false for
\* None and for 0.0.
validate_heatmap_radius(self, heatmap_radius) ==
    IF heatmap_radius # None /\ ~RatIsZero(heatmap_radius)
    THEN IF RatLe(heatmap_radius, RatInt(0))
         THEN [err |-> "Not a valid radius", ret |-> None, self |-> self]
         ELSE IF self.center = None
              THEN [err |-> "--heatmap-radius needs --heatmap-center",
                    ret |-> None, self |-> self]
         ELSE [err |-> NoError, ret |-> heatmap_radius,
               self |-> [self EXCEPT !.radius = heatmap_radius]]
    ELSE [err |-> NoError, ret |-> self.radius, self |-> self]

\* HeatmapDrawer.validate_heatmap_line_width; heatmap_line_width.auto tells
\* whether the string is "automatic" in any case of letters, .fields are its
\* comma-separated fields otherwise. The loop assigns the empty list first
\* and appends pair by pair, so a failure leaves the pairs read so far.
RECURSIVE LineWidthLoop(_, _, _)
LineWidthLoop(self, fields, value) ==
    IF value > 4 THEN [err |-> NoError, self |-> self]
    ELSE LET transparency == fields[value + 1]
             width == fields[value + 2]
         IN  IF transparency = None \/ width = None
             THEN [err |-> "Not three valid TRANSPARENCY,WIDTH pairs", self |-> self]
             ELSE IF RatLt(transparency, RatInt(0)) \/ RatLt(RatInt(1), transparency)
                  THEN [err |-> "Not a valid TRANSPARENCY value", self |-> self]
             ELSE LineWidthLoop(
                      [self EXCEPT !.line_width = Append(@, <<transparency, width>>)],
                      fields, value + 2)

validate_heatmap_line_width(self, heatmap_line_width) ==
    IF heatmap_line_width.auto
    THEN [err |-> NoError, ret |-> None, self |-> [self EXCEPT !.line_width = None]]
    ELSE IF heatmap_line_width.fields # <<>>
    THEN IF Len(heatmap_line_width.fields) # 6
         THEN [err |-> "Not three valid TRANSPARENCY,WIDTH pairs", ret |-> None,
               self |-> self]
         ELSE LET res == LineWidthLoop([self EXCEPT !.line_width = <<>>],
                                       heatmap_line_width.fields, 0)
              IN  [err |-> res.err, self |-> res.self,
                   ret |-> IF res.err = NoError THEN res.self.line_width ELSE None]
    ELSE [err |-> NoError, ret |-> None, self |-> self]

\* HeatmapDrawer.fetch_args: the three validations, each assigned to its
\* field, all three done twice, then the tile options. The first exception
\* ends the call and leaves what the validations before it have set.
fetch_args(self, args) ==
    LET Validations(s0) ==
            LET c == validate_heatmap_center(s0, args.heatmap_center)
                s1 == [c.self EXCEPT !.center = c.ret]
                r == validate_heatmap_radius(s1, args.heatmap_radius)
                s2 == [r.self EXCEPT !.radius = r.ret]
                w == validate_heatmap_line_width(s2, args.heatmap_line_width)
                s3 == [w.self EXCEPT !.line_width = w.ret]
            IN  IF c.err # NoError THEN [err |-> c.err, self |-> c.self]
                ELSE IF r.err # NoError THEN [err |-> r.err, self |-> r.self]
                ELSE IF w.err # NoError THEN [err |-> w.err, self |-> w.self]
                ELSE [err |-> NoError, self |-> s3]
        first == Validations(self)
        second == Validations(first.self)
        s4 == IF args.heatmap_tile_provider # ""
              THEN [second.self EXCEPT !.tile_provider = args.heatmap_tile_provider]
              ELSE second.self
        s5 == IF args.heatmap_tile_max_size # 0
              THEN [s4 EXCEPT !.bg_max_size = args.heatmap_tile_max_size]
              ELSE s4
    IN  IF first.err # NoError THEN first
        ELSE IF second.err # NoError THEN second
        ELSE [err |-> NoError, self |-> [s5 EXCEPT !.renderer = args.heatmap_renderer]]

\* HeatmapDrawer.get_line_transparencies_and_widths for a bounding box whose
\* diagonal is d km long; `if self._heatmap_line_width` is false for None
\* and for the empty list.
get_line_transparencies_and_widths(self, d) ==
    IF self.line_width # <<>> THEN self.line_width
    ELSE IF RatLt(self.upp, d) THEN self.upper
    ELSE IF RatLt(d, self.low) THEN self.lower
    ELSE LET factor == RatDiv(d, RatSub(self.upp, self.low))
             Between(i, j) ==
                 RatAdd(self.lower[i][j],
                        RatMul(factor, RatSub(self.upper[i][j], self.lower[i][j])))
         IN  [i \in 1..3 |-> <<Between(i, 1), Between(i, 2)>>]

\* The command lines: centre, radius and line widths given or not, valid or
\* not; the tile options as argparse defaults them ("" for no provider).
HeatArgs ==
    [heatmap_center : {<<>>, <<RatInt(10)>>, <<RatInt(10), RatInt(20)>>,
                       <<None, RatInt(20)>>, <<RatInt(91), RatInt(0)>>},
     heatmap_radius : {None, RatInt(0 - 1), RatInt(0), RatInt(5)},
     heatmap_line_width :
         {[auto |-> FALSE, fields |-> <<>>], [auto |-> TRUE, fields |-> <<>>],
          [auto |-> FALSE, fields |-> <<RatInt(1), RatInt(2)>>],
          [auto |-> FALSE,
           fields |-> <<Rat(1, 2), RatInt(3), RatInt(2), RatInt(1), RatInt(1), None>>],
          [auto |-> FALSE,
           fields |-> <<Rat(1, 2), RatInt(3), Rat(1, 2), RatInt(2), RatInt(1), RatInt(1)>>]},
     heatmap_tile_provider : {""},
     heatmap_tile_max_size : {1200},
     heatmap_renderer : {"pillow"}]

\* Lengths in km of the diagonal of the tracks' bounding box.
Diagonals == {RatInt(d) : d \in {0, 5, 10, 100, 500, 990, 1000, 1001, 2000}}

\* drawer.fetch_args(args)
FetchArgs(args) ==
    LET res == fetch_args(heat, args)
    IN  /\ heat' = [res.self EXCEPT !.op = "fetch_args", !.arg = args,
                                    !.err = res.err, !.ret = None]
        /\ UNCHANGED notHeat

\* drawer.get_line_transparencies_and_widths(bbox)
GetLineTransparenciesAndWidths(d) ==
    /\ heat' = [heat EXCEPT !.op = "get_line_transparencies_and_widths",
                            !.arg = d, !.err = NoError,
                            !.ret = get_line_transparencies_and_widths(heat, d)]
    /\ UNCHANGED notHeat

---------------------------------------------------------------------------

(* Operations on the range objects *)

Called(op, c, args, res) ==
    [op |-> op, cls |-> c, args |-> args, pre |-> ranges[c],
     err |-> res.err, ret |-> res.ret]

Clear(c) ==
    /\ ranges' = [ranges EXCEPT ![c] = clear(ranges[c])]
    /\ call' = Called("clear", c, <<>>, Returned(None))
    /\ UNCHANGED notRange

Extend(c, value) ==
    /\ ranges' = [ranges EXCEPT ![c] = extend(ranges[c], value)]
    /\ call' = Called("extend", c, <<value>>, Returned(None))
    /\ UNCHANGED notRange

FromPair(c, value1, value2) ==
    /\ ranges' = [ranges EXCEPT ![c] = from_pair(value1, value2)]
    /\ call' = Called("from_pair", c, <<value1, value2>>, Returned(None))
    /\ UNCHANGED notRange

Interpolate(c, relative) ==
    /\ call' = Called("interpolate", c, <<relative>>, interpolate(ranges[c], relative))
    /\ UNCHANGED <<ranges, notRange>>

RelativePosition(c, value) ==
    /\ call' = Called("relative_position", c, <<value>>,
                      relative_position(ranges[c], value))
    /\ UNCHANGED <<ranges, notRange>>

---------------------------------------------------------------------------
(* Specifications: one per component, each leaving the others untouched *)

RangeInit ==
    /\ heat = NoHeat
    /\ units = NoUnits
    /\ track = NoCalc
    /\ poster = NoPoster
    /\ calc = NoCalc
    /\ clock = NoClock
    /\ ranges = [c \in Classes |-> RangeNew]
    /\ call = NoCall
    /\ grid = NoGrid
    /\ proj = NoProj

RangeNext ==
    \/ \E c \in Classes : Clear(c)
    \/ \E c \in Classes, v \in Values : Extend(c, v)
    \/ \E c \in Classes, v1 \in Values, v2 \in Values : FromPair(c, v1, v2)
    \/ \E c \in Classes, r \in Ratios : Interpolate(c, r)
    \/ \E c \in Classes, v \in ProbeValues : RelativePosition(c, v)

SpecRange == RangeInit /\ [][RangeNext]_vars

GridInit ==
    /\ heat = NoHeat
    /\ units = NoUnits
    /\ track = NoCalc
    /\ poster = NoPoster
    /\ calc = NoCalc
    /\ clock = NoClock
    /\ ranges = [c \in Classes |-> RangeNew]
    /\ call = NoCall
    /\ proj = NoProj
    /\ \E n \in Counts, d \in Canvases : grid = GridInput(n, d)

GridNext ==
    \/ ComputeGrid
    \/ ClockDraw

SpecGrid == GridInit /\ [][GridNext]_vars

ProjInit ==
    /\ heat = NoHeat
    /\ units = NoUnits
    /\ track = NoCalc
    /\ poster = NoPoster
    /\ calc = NoCalc
    /\ clock = NoClock
    /\ ranges = [c \in Classes |-> RangeNew]
    /\ call = NoCall
    /\ grid = NoGrid
    /\ \E b \in LatLngRects, s \in ProjSizes, o \in Offsets, ls \in PolylineLists :
          proj = ProjInput(b, s, o, ls)

ProjNext == Project

SpecProject == ProjInit /\ [][ProjNext]_vars

ClockInit ==
    /\ heat = NoHeat
    /\ units = NoUnits
    /\ track = NoCalc
    /\ track = NoCalc
    /\ poster = NoPoster
    /\ poster = NoPoster
    /\ calc = NoCalc
    /\ ranges = [c \in Classes |-> RangeNew]
    /\ call = NoCall
    /\ grid = NoGrid
    /\ proj = NoProj
    /\ calc = NoCalc
    /\ \E start \in Times, end \in Times : clock = ClockInput(start, end)

ClockNext ==
    \/ GetClockAngle
    \/ DrawCircleSegment

SpecClock == ClockInit /\ [][ClockNext]_vars

ColorInit ==
    /\ heat = NoHeat
    /\ units = NoUnits
    /\ track = NoCalc
    /\ track = NoCalc
    /\ poster = NoPoster
    /\ poster = NoPoster
    /\ ranges = [c \in Classes |-> RangeNew]
    /\ call = NoCall
    /\ grid = NoGrid
    /\ proj = NoProj
    /\ clock = NoClock
    /\ \E c1 \in Colors, c2 \in Colors, r \in ColorRatios :
          calc = [op |-> "none", args |-> <<c1, c2, r>>, out |-> Returned(None)]

ColorNext == InterpolateColor

SpecColor == ColorInit /\ [][ColorNext]_vars

XYInit ==
    /\ heat = NoHeat
    /\ units = NoUnits
    /\ track = NoCalc
    /\ track = NoCalc
    /\ poster = NoPoster
    /\ poster = NoPoster
    /\ ranges = [c \in Classes |-> RangeNew]
    /\ call = NoCall
    /\ grid = NoGrid
    /\ proj = NoProj
    /\ clock = NoClock
    /\ \E x \in Components, y \in Components, m \in Components :
          calc = [op |-> "none", args |-> <<XY(x, y), m>>, out |-> Returned(None)]

XYNext == ScaleToMaxValue

SpecXY == XYInit /\ [][XYNext]_vars

PosterInit ==
    /\ heat = NoHeat
    /\ units = NoUnits
    /\ track = NoCalc
    /\ ranges = [c \in Classes |-> RangeNew]
    /\ call = NoCall
    /\ grid = NoGrid
    /\ proj = NoProj
    /\ clock = NoClock
    /\ calc = NoCalc
    /\ \E tracks \in SeqsUpTo(SampleTracks, MaxTracks) : poster = PosterNew(tracks)

\* set_tracks is called with the list the poster was built for (or the list
\* of the last call again) and, to replace it, with the empty list or one
\* track of 1000 m on a New Year's Day.
PosterNext ==
    \/ \E tracks \in {poster.arg} \cup
            SeqsUpTo({t \in SampleTracks : t.start.month = 1 /\ t.start.day = 1
                                              /\ t.length = RatInt(1000)}, 1) :
          SetTracks(tracks)
    \/ ComputeTrackStatistics
    \/ \E with_animation \in BOOLEAN : ClockDrawerDraw(with_animation)
    \/ HeatmapDrawerDraw

SpecPoster == PosterInit /\ [][PosterNext]_vars

TrackInit ==
    /\ heat = NoHeat
    /\ units = NoUnits
    /\ ranges = [c \in Classes |-> RangeNew]
    /\ call = NoCall
    /\ grid = NoGrid
    /\ proj = NoProj
    /\ clock = NoClock
    /\ calc = NoCalc
    /\ poster = NoPoster
    /\ \E a \in TrackObjects("a.gpx", [lat |-> 30, lng |-> 150]),
          b \in TrackObjects("b.gpx", [lat |-> 60, lng |-> 0 - 150]) :
          track = [op |-> "none", objs |-> [a |-> a, b |-> b]]

TrackNext ==
    \/ \E id \in TrackIds, value \in OptionalTimes : SetStartTime(id, value)
    \/ \E id \in TrackIds, value \in OptionalTimes : SetEndTime(id, value)
    \/ \E id \in TrackIds, other \in TrackIds, optimized \in BOOLEAN :
          AppendTrack(id, other, optimized)

SpecTrack == TrackInit /\ [][TrackNext]_vars

LoadInit ==
    /\ heat = NoHeat
    /\ units = NoUnits
    /\ ranges = [c \in Classes |-> RangeNew]
    /\ call = NoCall
    /\ grid = NoGrid
    /\ proj = NoProj
    /\ clock = NoClock
    /\ calc = NoCalc
    /\ poster = NoPoster
    /\ track = NoCalc

LoadNext ==
    \/ \E t \in Threads, file \in GpxFiles : LoadGpx(t, file)
    \/ \E t \in Threads : UnitsTest(t)
    \/ \E t \in Threads : UnitsAssign(t)

SpecLoad == LoadInit /\ [][LoadNext]_vars

HeatInit ==
    /\ heat = NoHeat
    /\ units = NoUnits
    /\ ranges = [c \in Classes |-> RangeNew]
    /\ call = NoCall
    /\ grid = NoGrid
    /\ proj = NoProj
    /\ clock = NoClock
    /\ calc = NoCalc
    /\ poster = NoPoster
    /\ track = NoCalc

HeatNext ==
    \/ \E args \in HeatArgs : FetchArgs(args)
    \/ \E d \in Diagonals : GetLineTransparenciesAndWidths(d)

SpecHeatmap == HeatInit /\ [][HeatNext]_vars

---------------------------------------------------------------------------
(* Properties of ValueRange / QuantityRange, checked under SpecRange *)

Zero == RatInt(0)
One == RatInt(1)
InUnitInterval(x) == RatLe(Zero, x) /\ RatLe(x, One)
Valid(r) == r.lower # None /\ r.upper # None
Degenerate(r) == Valid(r) /\ r.lower = r.upper

\* C1: extend(value) on an invalid range sets lower = upper = value; on a
\* valid range it sets lower = min(lower, value) and upper = max(upper, value),
\* so the bounds only widen or stay. Holds for both classes.
C1_ExtendWidens ==
    call.op = "extend" =>
        LET pre == call.pre
            v == call.args[1]
            post == ranges[call.cls]
        IN  IF pre.lower = None
            THEN post.lower = v /\ post.upper = v
            ELSE /\ post.lower = (IF RatLt(v, pre.lower) THEN v ELSE pre.lower)
                 /\ post.upper = (IF RatLt(pre.upper, v) THEN v ELSE pre.upper)
                 /\ RatLe(post.lower, pre.lower)
                 /\ RatLe(pre.upper, post.upper)

\* An extend of a valid QuantityRange by a value below its lower bound.
C1_Witness ==
    /\ call.op = "extend"
    /\ call.cls = "QuantityRange"
    /\ Valid(call.pre)
    /\ RatLt(call.args[1], call.pre.lower)
    /\ ranges[call.cls].lower = call.args[1]

\* C2: after any sequence of construction, from_pair, extend and clear, a
\* range is either invalid with both bounds unset, or valid with both bounds
\* set and lower <= upper; is_valid() is true exactly in the second case.
C2_RangeInvariant ==
    \A c \in Classes :
        LET r == ranges[c]
        IN  \/ r.lower = None /\ r.upper = None /\ ~is_valid(r)
            \/ /\ r.lower # None /\ r.upper # None
               /\ RatLe(r.lower, r.upper)
               /\ is_valid(r)

\* A range that was valid with lower < upper and has just been cleared, while
\* the other range is valid.
C2_Witness ==
    /\ call.op = "clear"
    /\ Valid(call.pre) /\ RatLt(call.pre.lower, call.pre.upper)
    /\ ~is_valid(ranges[call.cls])
    /\ \E c \in Classes : Valid(ranges[c]) /\ RatLt(ranges[c].lower, ranges[c].upper)

\* C3: on a valid range relative_position(v) is exactly 0 for v below lower,
\* exactly 1 for v above upper, and within [0, 1] for every v.
C3_RelativePositionClamps ==
    (call.op = "relative_position" /\ Valid(call.pre)) =>
        LET v == call.args[1]
        IN  /\ call.err = NoError
            /\ InUnitInterval(call.ret)
            /\ RatLt(v, call.pre.lower) => call.ret = Zero
            /\ RatLt(call.pre.upper, v) => call.ret = One

\* relative_position of a value above the upper bound of a range with
\* lower < upper.
C3_Witness ==
    /\ call.op = "relative_position"
    /\ Valid(call.pre) /\ RatLt(call.pre.lower, call.pre.upper)
    /\ RatLt(call.pre.upper, call.args[1])
    /\ call.ret = One

\* C4 (as claimed): on a valid range with lower = upper, relative_position(v)
\* is 0 for every v, below, equal to or above the bound, without error.
C4_Original ==
    (call.op = "relative_position" /\ Degenerate(call.pre)) =>
        call.err = NoError /\ call.ret = Zero

\* C4 (amended): on a valid range with lower = upper, relative_position(v)
\* raises nothing (no division by zero) and is 0 for every v at or below the
\* bound and 1 for every v above it.
C4_DegenerateRange ==
    (call.op = "relative_position" /\ Degenerate(call.pre)) =>
        /\ call.err = NoError
        /\ call.ret = (IF RatLt(call.pre.upper, call.args[1]) THEN One ELSE Zero)

\* relative_position of a value above the single bound of a degenerate range.
C4_Witness ==
    /\ call.op = "relative_position"
    /\ Degenerate(call.pre)
    /\ RatLt(call.pre.upper, call.args[1])
    /\ call.ret = One

\* C5 (as claimed): for every valid range and r in [0, 1], interpolate(r) is
\* lower + r * (upper - lower) and relative_position(interpolate(r)) = r.
C5_Original ==
    (call.op = "interpolate" /\ Valid(call.pre) /\ InUnitInterval(call.args[1])) =>
        LET r == call.args[1]
            lo == call.pre.lower
            up == call.pre.upper
        IN  /\ call.err = NoError
            /\ RatSub(call.ret, lo) = RatMul(r, RatSub(up, lo))
            /\ relative_position(call.pre, call.ret) = Returned(r)

\* C5 (amended): for every valid range and r in [0, 1], interpolate(r) is
\* lower + r * (upper - lower); relative_position(interpolate(r)) = r when
\* lower < upper, and is 0 when lower = upper.
C5_RoundTrip ==
    (call.op = "interpolate" /\ Valid(call.pre) /\ InUnitInterval(call.args[1])) =>
        LET r == call.args[1]
            lo == call.pre.lower
            up == call.pre.upper
        IN  /\ call.err = NoError
            /\ RatSub(call.ret, lo) = RatMul(r, RatSub(up, lo))
            /\ relative_position(call.pre, call.ret) =
                   Returned(IF RatLt(lo, up) THEN r ELSE Zero)

\* interpolate at a ratio strictly between 0 and 1 on a range with
\* lower < upper, on each class.
C5_Witness ==
    /\ call.op = "interpolate"
    /\ Valid(call.pre) /\ RatLt(call.pre.lower, call.pre.upper)
    /\ RatLt(Zero, call.args[1]) /\ RatLt(call.args[1], One)
    /\ call.err = NoError
    /\ RatLt(call.pre.lower, call.ret) /\ RatLt(call.ret, call.pre.upper)

\* C6: interpolate and relative_position on an invalid range raise ValueError
\* and leave the range invalid and unchanged.
C6_InvalidRangeFails ==
    (call.op \in {"interpolate", "relative_position"} /\ ~is_valid(call.pre)) =>
        /\ call.err = "ValueError"
        /\ ranges[call.cls] = call.pre
        /\ ~is_valid(ranges[call.cls])

\* interpolate on an invalid range (never extended, or cleared) while the
\* other range is valid.
C6_Witness ==
    /\ call.op = "interpolate"
    /\ ~is_valid(call.pre)
    /\ call.err = "ValueError"
    /\ \E c \in Classes : c # call.cls /\ Valid(ranges[c])

---------------------------------------------------------------------------
(* Properties of compute_grid and of its use by ClockDrawer.draw, checked   *)
(* under SpecGrid                                                           *)

GridDone == grid.op # "none"

\* The candidate pairs of the claims and the waste of one pair.
GridPairs(count) ==
    {p \in (1..count) \X (1..count) : p[1] * p[2] >= count}
CellSize(dimensions, p) ==
    RatMin(RatDiv(dimensions.x, RatInt(p[1])), RatDiv(dimensions.y, RatInt(p[2])))
WasteOf(count, dimensions, p) ==
    LET cell == CellSize(dimensions, p)
    IN  RatSub(RatMul(dimensions.x, dimensions.y),
               RatMul(RatInt(count), RatMul(cell, cell)))
\* p is reached no later than q by the loops (count_x outer, count_y inner).
NotAfter(p, q) == p[1] < q[1] \/ (p[1] = q[1] /\ p[2] <= q[2])

\* C7: for count >= 1 compute_grid returns counts with count_x * count_y >=
\* count and the cell size min(W / count_x, H / count_y), so count_x columns
\* and count_y rows of square cells of that size fit into the canvas.
C7_GridFits ==
    (GridDone /\ grid.count >= 1) =>
        /\ grid.counts # None
        /\ grid.size # None
        /\ grid.counts[1] * grid.counts[2] >= grid.count
        /\ grid.size = CellSize(grid.dimensions, grid.counts)
        /\ RatLe(RatMul(RatInt(grid.counts[1]), grid.size), grid.dimensions.x)
        /\ RatLe(RatMul(RatInt(grid.counts[2]), grid.size), grid.dimensions.y)

\* A grid for MaxCount fields on a canvas that is not square, with more
\* cells than fields.
C7_Witness ==
    /\ grid.op = "compute_grid"
    /\ grid.count = MaxCount
    /\ grid.dimensions.x # grid.dimensions.y
    /\ grid.counts # None
    /\ grid.counts[1] * grid.counts[2] > grid.count

\* C8: compute_grid returns the pair of smallest waste W*H - count*size^2
\* among the pairs of 1..count x 1..count with count_x * count_y >= count, and
\* among pairs of equal waste the first in iteration order; count = 1 gives
\* (1, 1) and count = 4 on a square canvas gives (2, 2).
C8_GridMinimalWaste ==
    (GridDone /\ grid.count >= 1) =>
        /\ grid.counts \in GridPairs(grid.count)
        /\ \A p \in GridPairs(grid.count) :
              LET best == WasteOf(grid.count, grid.dimensions, grid.counts)
                  other == WasteOf(grid.count, grid.dimensions, p)
              IN  /\ RatLe(best, other)
                  /\ other = best => NotAfter(grid.counts, p)
        /\ grid.count = 1 => grid.counts = <<1, 1>>
        /\ (grid.count = 4 /\ grid.dimensions.x = grid.dimensions.y)
               => grid.counts = <<2, 2>>

\* A grid where another pair wastes exactly as much as the returned one and
\* comes later in the iteration.
C8_Witness ==
    /\ GridDone
    /\ grid.count >= 2
    /\ grid.counts # None
    /\ \E p \in GridPairs(grid.count) :
          /\ p # grid.counts
          /\ WasteOf(grid.count, grid.dimensions, p)
                 = WasteOf(grid.count, grid.dimensions, grid.counts)
          /\ NotAfter(grid.counts, p)

\* C9: compute_grid returns (None, None) only when count <= 0; for count >= 1
\* and a canvas of positive width and height it returns a size and counts, so
\* ClockDrawer.draw does not raise 'Unable to compute grid.' when there is at
\* least one year.
C9_GridAlwaysFound ==
    GridDone =>
        /\ (grid.counts = None) <=> (grid.count <= 0)
        /\ (grid.size = None) <=> (grid.count <= 0)
        /\ (grid.op = "draw" /\ grid.count >= 1) =>
               grid.err # "Unable to compute grid."

\* ClockDrawer.draw with MaxCount years: a grid is found and every year is
\* placed.
C9_Witness ==
    /\ grid.op = "draw"
    /\ grid.count = MaxCount
    /\ grid.err = NoError
    /\ grid.counts # None
    /\ Len(grid.cells) = MaxCount

\* C29: ClockDrawer.draw places the years row by row in the count_x by
\* count_y grid of compute_grid: the i-th year (from 0) gets the cell
\* (i mod count_x, i div count_x), no two years share a cell and every row
\* index stays below count_y.
C29_RowMajorCells ==
    (grid.op = "draw" /\ grid.err = NoError) =>
        LET count_x == grid.counts[1]
            count_y == grid.counts[2]
        IN  /\ Len(grid.cells) = grid.count
            /\ \A i \in 1..Len(grid.cells) :
                  /\ grid.cells[i] = <<(i - 1) % count_x, (i - 1) \div count_x>>
                  /\ grid.cells[i][1] < count_x
                  /\ grid.cells[i][2] < count_y
            /\ \A i, j \in 1..Len(grid.cells) :
                  grid.cells[i] = grid.cells[j] => i = j

\* MaxCount years in a grid of at least two columns and two rows, the last
\* year not in the first row.
C29_Witness ==
    /\ grid.op = "draw" /\ grid.err = NoError
    /\ grid.count = MaxCount
    /\ grid.counts[1] >= 2 /\ grid.counts[2] >= 2
    /\ grid.cells[MaxCount][2] >= 1

---------------------------------------------------------------------------
(* Properties of project, checked under SpecProject *)

ProjDone == proj.op = "project"

\* Width and height of the bounding box in projected coordinates.
BoxWidth(bbox) ==
    IF bbox.lng_lo <= bbox.lng_hi
    THEN Rat(bbox.lng_hi - bbox.lng_lo, 180)
    ELSE RatAdd(Rat(bbox.lng_hi - bbox.lng_lo, 180), RatInt(2))
BoxHeight(bbox) == RatSub(lat2y(bbox.lat_lo), lat2y(bbox.lat_hi))

\* The points of the polylines that lie in the bounding box, in input order.
RECURSIVE PointsInBox(_, _, _)
PointsInBox(bbox, latlnglines, k) ==
    IF k > Len(latlnglines) THEN <<>>
    ELSE SelectSeq(latlnglines[k], LAMBDA q : BBoxContains(bbox, q))
             \o PointsInBox(bbox, latlnglines, k + 1)
\* The points of the segments, in output order.
RECURSIVE Flatten(_, _)
Flatten(lines, k) ==
    IF k > Len(lines) THEN <<>> ELSE lines[k] \o Flatten(lines, k + 1)

\* C10: project uses one scale for both axes: every emitted point is
\* offset + scale * (x, y) of its input point, with
\* scale = min(size.x / d_x, size.y / d_y) (size.y / d_y when the width is
\* zero), d_x and d_y being the width and height of the projected bounding
\* box; the scaled box is not wider or taller than the canvas. Stated for
\* bounding boxes of positive height.
C10_UniformScale ==
    (ProjDone /\ ~RatIsZero(BoxHeight(proj.bbox))) =>
        LET o == proj.out
            size == proj.size
            inside == PointsInBox(proj.bbox, proj.latlnglines, 1)
            emitted == Flatten(o.ret, 1)
        IN  /\ o.err = NoError
            /\ o.d_x = BoxWidth(proj.bbox)
            /\ o.d_y = BoxHeight(proj.bbox)
            /\ o.scale = (IF RatIsZero(o.d_x) THEN RatDiv(size.y, o.d_y)
                          ELSE RatMin(RatDiv(size.x, o.d_x), RatDiv(size.y, o.d_y)))
            /\ RatLe(RatMul(o.scale, o.d_x), size.x)
            /\ RatLe(RatMul(o.scale, o.d_y), size.y)
            /\ Len(emitted) = Len(inside)
            /\ \A i \in 1..Len(emitted) :
                  /\ emitted[i][1] =
                         RatAdd(o.offset.x, RatMul(o.scale, lng2x(inside[i].lng)))
                  /\ emitted[i][2] =
                         RatAdd(o.offset.y, RatMul(o.scale, lat2y(inside[i].lat)))

\* s2sphere.LatLngRect.get_center().lng: the middle of the longitude
\* interval, taken across the antimeridian when the interval is inverted.
BoxCentreLng(bbox) ==
    LET mid == (bbox.lng_lo + bbox.lng_hi) \div 2
    IN  IF bbox.lng_lo <= bbox.lng_hi THEN mid
        ELSE IF mid <= 0 THEN mid + 180 ELSE mid - 180
\* The latitudes whose projection is the middle of the projected box.
BoxCentreLats(bbox) ==
    {lat \in {0 - 60, 0 - 30, 0, 30, 60} :
        RatAdd(lat2y(lat), lat2y(lat)) = RatAdd(lat2y(bbox.lat_lo), lat2y(bbox.lat_hi))}
SpansAllLongitudes(bbox) == bbox.lng_lo = 0 - 180 /\ bbox.lng_hi = 180
\* Where project puts a point of the bounding box (utils.py:96).
Landing(out, latlng) == XYAdd(out.offset, XYScale(out.scale, latlng2xy(latlng)))

\* C11: with zero offset, project puts the point at the centre of the
\* bounding box (the middle longitude of the box, and the latitude projected
\* to the middle of the projected box) at the canvas centre size / 2, on both
\* axes. Stated for bounding boxes of positive height that do not span all
\* longitudes.
C11_CentreAtCanvasCentre ==
    (/\ ProjDone
     /\ proj.offset = XY(Zero, Zero)
     /\ ~RatIsZero(BoxHeight(proj.bbox))
     /\ ~SpansAllLongitudes(proj.bbox)) =>
        /\ proj.out.err = NoError
        /\ \A lat \in BoxCentreLats(proj.bbox) :
              LET centre == [lat |-> lat, lng |-> BoxCentreLng(proj.bbox)]
              IN  /\ BBoxContains(proj.bbox, centre)
                  /\ Landing(proj.out, centre) = XYScale(Rat(1, 2), proj.size)

\* The maximal runs of consecutive points of one polyline that lie in the
\* bounding box, in the order of the polyline.
RunStarts(bbox, line) ==
    {i \in 1..Len(line) :
        /\ BBoxContains(bbox, line[i])
        /\ (i = 1 \/ ~BBoxContains(bbox, line[i - 1]))}
RunEnd(bbox, line, i) ==
    CHOOSE j \in i..Len(line) :
        /\ \A k \in i..j : BBoxContains(bbox, line[k])
        /\ (j = Len(line) \/ ~BBoxContains(bbox, line[j + 1]))
RunsOfLine(bbox, line) ==
    LET starts == RunStarts(bbox, line)
    IN  [r \in 1..Cardinality(starts) |->
            LET i == CHOOSE s \in starts : Cardinality({t \in starts : t < s}) = r - 1
            IN  SubSeq(line, i, RunEnd(bbox, line, i))]
RECURSIVE RunsOfLines(_, _, _)
RunsOfLines(bbox, latlnglines, k) ==
    IF k > Len(latlnglines) THEN <<>>
    ELSE RunsOfLine(bbox, latlnglines[k]) \o RunsOfLines(bbox, latlnglines, k + 1)

\* C12: whenever project returns, its segments are, in input order, the
\* maximal runs of consecutive in-box points of each input polyline, each
\* point projected: no segment is empty, no segment joins points of two
\* polylines or points separated by a point outside the box, a point outside
\* the box is in no segment, and every in-box point is in exactly one.
C12_SplitsAtOutsidePoints ==
    (ProjDone /\ proj.out.err = NoError) =>
        LET o == proj.out
            runs == RunsOfLines(proj.bbox, proj.latlnglines, 1)
        IN  /\ Len(o.ret) = Len(runs)
            /\ \A s \in 1..Len(o.ret) :
                  /\ Len(o.ret[s]) > 0
                  /\ Len(o.ret[s]) = Len(runs[s])
                  /\ \A i \in 1..Len(o.ret[s]) :
                        LET xy == Landing(o, runs[s][i])
                        IN  o.ret[s][i] = <<xy.x, xy.y>>
            /\ Len(Flatten(o.ret, 1)) = Len(PointsInBox(proj.bbox, proj.latlnglines, 1))

\* A polyline that leaves the box and comes back, followed by a second
\* polyline that starts inside the box: three segments.
C12_Witness ==
    /\ ProjDone /\ proj.out.err = NoError
    /\ Len(proj.latlnglines) = 2
    /\ Len(proj.latlnglines[1]) = 3
    /\ ~BBoxContains(proj.bbox, proj.latlnglines[1][2])
    /\ Len(proj.out.ret) = 3

\* C13: every point project emits lies in the canvas rectangle
\* [offset, offset + size] on both axes, also for a bounding box that crosses
\* the antimeridian (lng_lo > lng_hi). Stated for bounding boxes that do not
\* span all longitudes.
C13_PointsInsideCanvas ==
    (ProjDone /\ proj.out.err = NoError /\ ~SpansAllLongitudes(proj.bbox)) =>
        LET emitted == Flatten(proj.out.ret, 1)
            lo == proj.offset
            hi == XYAdd(proj.offset, proj.size)
        IN  \A i \in 1..Len(emitted) :
               /\ RatLe(lo.x, emitted[i][1]) /\ RatLe(emitted[i][1], hi.x)
               /\ RatLe(lo.y, emitted[i][2]) /\ RatLe(emitted[i][2], hi.y)

---------------------------------------------------------------------------
(* Properties of the clock angles, checked under SpecClock *)

HalfDayLater(t) == [t EXCEPT !.hour = (t.hour + 12) % 24]

\* C14: the angle computed for a time of day, by get_clock_angle_from_time and
\* by the clock drawer for the start and for the end time of a circle segment
\* alike, is (seconds since midnight mod 43200) * 360 / 43200 degrees: it lies
\* in [0, 360), and the time 12 hours later has the same angle (00:00 and
\* 12:00 give 0, 03:00 and 15:00 give 90, 06:00 and 18:00 give 180, 09:00 and
\* 21:00 give 270).
C14_ClockAngle ==
    clock.op # "none" =>
        LET angle(t) == Rat(360 * (SecondsOfDay(t) % 43200), 43200)
            OnTheHour(t, h) == t.hour \in {h, h + 12} /\ t.minute = 0 /\ t.second = 0
        IN  /\ clock.a1 = angle(clock.start)
            /\ clock.a2 = angle(clock.end)
            /\ \A a \in {clock.a1, clock.a2} : RatLe(Zero, a) /\ RatLt(a, RatInt(360))
            /\ clock.end = HalfDayLater(clock.start) => clock.a2 = clock.a1
            /\ \A k \in 0..3 : OnTheHour(clock.start, 3 * k) => clock.a1 = RatInt(90 * k)
            /\ \A k \in 0..3 : OnTheHour(clock.end, 3 * k) => clock.a2 = RatInt(90 * k)

---------------------------------------------------------------------------
(* Properties of interpolate_color, checked under SpecColor *)

\* C15: interpolate_color clamps the ratio into [0, 1] before it interpolates
\* hue, saturation and luminance as (1 - ratio) * c1 + ratio * c2: a ratio
\* <= 0 returns color1, the result for ratio 0, a ratio >= 1 returns color2,
\* the result for ratio 1, and a ratio in between returns the colour of the
\* interpolated channels; no ratio raises an error.
C15_ClampsRatio ==
    calc.op = "interpolate_color" =>
        LET color1 == calc.args[1]
            color2 == calc.args[2]
            ratio == calc.args[3]
        IN  /\ calc.out.err = NoError
            /\ RatLe(ratio, Zero) =>
                  /\ calc.out.ret = color1
                  /\ calc.out = interpolate_color(color1, color2, Zero)
            /\ RatLe(One, ratio) =>
                  /\ calc.out.ret = color2
                  /\ calc.out = interpolate_color(color1, color2, One)
            /\ (RatLt(Zero, ratio) /\ RatLt(ratio, One)) =>
                  calc.out = hex_l(Blend(rgb2hsl(color1), rgb2hsl(color2), ratio))

\* A ratio far below 0 between two colours that differ in every channel.
C15_Witness ==
    /\ calc.op = "interpolate_color"
    /\ calc.args[3] = RatInt(0 - 100)
    /\ calc.args[1] = <<77, 210, 255>>
    /\ calc.args[2] = <<255, 0, 0>>
    /\ calc.out = Returned(<<77, 210, 255>>)

---------------------------------------------------------------------------
(* Properties of XY.scale_to_max_value, checked under SpecXY *)

\* The result is the original with both components multiplied by
\* max_value / max(x, y).
ScaledByOneFactor(self, max_value, result) ==
    LET larger == RatMax(self.x, self.y)
    IN  /\ RatMul(result.x, larger) = RatMul(max_value, self.x)
        /\ RatMul(result.y, larger) = RatMul(max_value, self.y)
        /\ RatMul(result.x, self.y) = RatMul(result.y, self.x)

\* C16 (as claimed): scale_to_max_value(m) scales both components by
\* m / max(x, y); for every XY (with max(x, y) not 0, where that factor is
\* defined) the larger component of the result equals m and the ratio x / y is
\* preserved.
C16_Original ==
    (calc.op = "scale_to_max_value"
        /\ ~RatIsZero(RatMax(calc.args[1].x, calc.args[1].y))) =>
        /\ calc.out.err = NoError
        /\ ScaledByOneFactor(calc.args[1], calc.args[2], calc.out.ret)
        /\ RatMax(calc.out.ret.x, calc.out.ret.y) = calc.args[2]

\* C16 (amended): scale_to_max_value(m) scales both components by
\* m / max(x, y), so the ratio x / y is preserved and the component that was
\* the larger one (y when x <= y) becomes m: it is the larger component of the
\* result when the factor is >= 0 and the smaller one when the factor is
\* negative. When max(x, y) is 0 the call raises ZeroDivisionError.
C16_ScalesLargerToMax ==
    calc.op = "scale_to_max_value" =>
        LET self == calc.args[1]
            m == calc.args[2]
            larger == RatMax(self.x, self.y)
            res == calc.out.ret
        IN  IF RatIsZero(larger) THEN calc.out.err = "ZeroDivisionError"
            ELSE /\ calc.out.err = NoError
                 /\ ScaledByOneFactor(self, m, res)
                 /\ (IF RatLt(self.y, self.x) THEN res.x ELSE res.y) = m
                 /\ IF RatLe(Zero, RatDiv(m, larger))
                    THEN RatMax(res.x, res.y) = m
                    ELSE RatMin(res.x, res.y) = m

\* XY(1, 2) scaled to the negative maximum -2 (the shape of tests/test_xy.py:
\* XY(50, 100) scaled to -50 gives XY(-25, -50)).
C16_Witness ==
    /\ calc.op = "scale_to_max_value"
    /\ calc.args = <<XY(RatInt(1), RatInt(2)), RatInt(0 - 2)>>
    /\ calc.out = Returned(XY(RatInt(0 - 1), RatInt(0 - 2)))

---------------------------------------------------------------------------
(* Properties of Poster, checked under SpecPoster *)

TracksSet == poster.op = "set_tracks"
DateOf(t) == <<t.start.year, t.start.month, t.start.day>>
TracksOn(date) == SelectSeq(poster.tracks, LAMBDA t : DateOf(t) = date)
DatesOfTracks == {DateOf(poster.tracks[i]) : i \in 1..Len(poster.tracks)}
LengthsOfTracks == {poster.tracks[i].length : i \in 1..Len(poster.tracks)}
TotalsByDate == {SumLengths(TracksOn(d), 1) : d \in DatesOfTracks}
\* r spans exactly the values of the non-empty set S.
Spans(r, S) ==
    /\ Valid(r)
    /\ r.lower \in S /\ r.upper \in S
    /\ \A v \in S : RatLe(r.lower, v) /\ RatLe(v, r.upper)

\* C17: after set_tracks with at least one track, length_range spans the
\* smallest and the largest single-track length and length_range_by_date
\* spans the smallest and the largest per-date total, the total of a date
\* being the sum of the lengths of all tracks that start on it (tracks of
\* 1000 m and 2000 m on the only date give lower = upper = 3000 m); with no
\* track both ranges are invalid.
C17_RangesAfterSetTracks ==
    TracksSet =>
        /\ poster.tracks = poster.arg
        /\ IF Len(poster.tracks) = 0
           THEN ~is_valid(poster.length_range) /\ ~is_valid(poster.length_range_by_date)
           ELSE /\ Spans(poster.length_range, LengthsOfTracks)
                /\ Spans(poster.length_range_by_date, TotalsByDate)
        /\ (/\ Len(poster.tracks) = 2
            /\ Cardinality(DatesOfTracks) = 1
            /\ LengthsOfTracks = {RatInt(1000), RatInt(2000)})
               => poster.length_range_by_date = [lower |-> RatInt(3000), upper |-> RatInt(3000)]

\* Three tracks on two dates: 1000 m and 2000 m on one date, 1000 m on the
\* other, so that the per-date range 1000..3000 differs from the per-track
\* range 1000..2000.
C17_Witness ==
    /\ TracksSet
    /\ Len(poster.tracks) = 3
    /\ Cardinality(DatesOfTracks) = 2
    /\ poster.length_range = [lower |-> RatInt(1000), upper |-> RatInt(2000)]
    /\ poster.length_range_by_date = [lower |-> RatInt(1000), upper |-> RatInt(3000)]

StatisticsDone == poster.op = "_compute_track_statistics"
ISOWeekOf(t) == <<isocalendar(t.start)[1], isocalendar(t.start)[2]>>

\* C18: the week count returned by _compute_track_statistics is the number
\* of distinct ISO (year, week) pairs among the start times of the tracks:
\* two tracks count as one week exactly when they lie in the same ISO week of
\* the same ISO year.
C18_WeekCount ==
    StatisticsDone =>
        poster.ret[4] = Cardinality({ISOWeekOf(poster.tracks[i]) : i \in 1..Len(poster.tracks)})

\* C25: set_tracks rebuilds the derived state from scratch: after any
\* sequence of set_tracks calls (and of the other calls on the poster),
\* tracks_by_date, year_tracks_date_count_dict, years, length_range and
\* length_range_by_date are what set_tracks gives on a new Poster for the
\* list of the last call; nothing of an earlier call remains.
C25_RebuiltFromScratch ==
    TracksSet =>
        LET fresh == set_tracks(NoPoster, poster.arg)
        IN  /\ poster.tracks_by_date = fresh.tracks_by_date
            /\ poster.year_tracks_date_count_dict = fresh.year_tracks_date_count_dict
            /\ poster.years = fresh.years
            /\ poster.length_range = fresh.length_range
            /\ poster.length_range_by_date = fresh.length_range_by_date
            /\ DictKeys(poster.tracks_by_date) = DatesOfTracks
            /\ DictKeys(poster.year_tracks_date_count_dict) =
                   {d[1] : d \in DatesOfTracks}

\* set_tracks with one track of 2019 on a poster whose statistics were
\* computed for tracks of 2018: the total of 2018 is still in
\* total_length_year_dict, the derived state knows 2019 only.
C25_Witness ==
    /\ TracksSet
    /\ Len(poster.arg) = 1
    /\ poster.arg[1].start.year = 2019
    /\ DictKeys(poster.total_length_year_dict) = {2018}
    /\ DictKeys(poster.year_tracks_date_count_dict) = {2019}
    /\ Len(poster.tracks_by_date) = 1

\* C26: after set_tracks(tracks) every track of the list is in exactly one
\* entry of tracks_by_date, the one of its start date, the tracks of a date
\* in input order; year_tracks_date_count_dict[y] is the number of distinct
\* start dates in year y.
C26_GroupedByDate ==
    TracksSet =>
        LET by_date == poster.tracks_by_date
            counts == poster.year_tracks_date_count_dict
        IN  /\ DictKeys(by_date) = DatesOfTracks
            /\ Len(by_date) = Cardinality(DatesOfTracks)
            /\ \A k \in 1..Len(by_date) : by_date[k].val = TracksOn(by_date[k].key)
            /\ \A i \in 1..Len(poster.tracks) :
                  Cardinality({k \in 1..Len(by_date) :
                                  \E j \in 1..Len(by_date[k].val) :
                                      by_date[k].val[j] = poster.tracks[i]}) = 1
            /\ Len(counts) = Cardinality(DictKeys(counts))
            /\ \A y \in 2017..2021 :
                  DictGet(counts, y, 0) = Cardinality({d \in DatesOfTracks : d[1] = y})

\* Two tracks on 2018-01-01, of 2000 m and then of 1000 m, and one in 2020:
\* one entry holds the two in that order, 2018 and 2020 count one date each.
C26_Witness ==
    /\ TracksSet
    /\ Len(poster.tracks) = 3
    /\ \E k \in 1..Len(poster.tracks_by_date) :
          /\ poster.tracks_by_date[k].key = <<2018, 1, 1>>
          /\ Len(poster.tracks_by_date[k].val) = 2
          /\ poster.tracks_by_date[k].val[1].length = RatInt(2000)
          /\ poster.tracks_by_date[k].val[2].length = RatInt(1000)
    /\ DictGet(poster.year_tracks_date_count_dict, 2018, 0) = 1
    /\ DictGet(poster.year_tracks_date_count_dict, 2020, 0) = 1

Drawn == poster.op \in {"ClockDrawer.draw", "HeatmapDrawer.draw"}

\* C28: ClockDrawer.draw, once it has a grid, draws every year of the
\* poster's year range without error, a year in which no track starts
\* included; for every segment drawn with animation the number of animation
\* values equals the number of key times.
C28_DrawsEveryYear ==
    (poster.op = "ClockDrawer.draw" /\ poster.err # "Unable to compute grid.") =>
        /\ poster.err = NoError
        /\ Len(poster.ret) = Cardinality(DatesOfTracks)
        /\ \A i \in 1..Len(poster.ret) :
              /\ Len(poster.ret[i].key_times) = 1 +
                     Cardinality({d \in DatesOfTracks : d[1] = poster.ret[i].date[1]})
              /\ poster.ret[i].animated =>
                     Len(poster.ret[i].values) = Len(poster.ret[i].key_times)

\* C19: drawing a poster that has no tracks fails with 'No tracks to draw.'
\* in the clock drawer and in the heatmap drawer alike, and 'Unable to compute
\* grid.' is raised only for a poster that has tracks.
C19_NoTracksError ==
    Drawn =>
        /\ Len(poster.tracks) = 0 => poster.err = "No tracks to draw."
        /\ poster.err = "Unable to compute grid." => Len(poster.tracks) > 0

---------------------------------------------------------------------------
(* Properties of Track, checked under SpecTrack *)

Appended == track.op = "append"
Elements(seq) == {seq[i] : i \in 1..Len(seq)}

\* C20: after a.append(b) for two different tracks, a's length is the sum of
\* both lengths (strictly greater than before when b's length is positive),
\* a's polylines are a's followed by b's, a's file names are a's followed by
\* b's and so contain the names of both, a.special is the OR of both flags,
\* a's start time is unchanged and b is unchanged. The call returns whenever
\* b has an end time; when b has none it either raises AssertionError and
\* changes nothing, or (assertions compiled away) does all of the above.
C20_AppendMerges ==
    Appended =>
        LET a == track.pre[track.self]
            b == track.pre[track.arg]
            after == track.objs[track.self]
        IN  /\ b.end_time # None => track.err = NoError
            /\ track.err # NoError =>
                  /\ track.err = "AssertionError"
                  /\ b.end_time = None
                  /\ track.objs = track.pre
            /\ track.err = NoError =>
                  /\ after.length_meters = RatAdd(a.length_meters, b.length_meters)
                  /\ RatLt(Zero, b.length_meters) =>
                         RatLt(a.length_meters, after.length_meters)
                  /\ after.polylines = a.polylines \o b.polylines
                  /\ after.file_names = a.file_names \o b.file_names
                  /\ Elements(a.file_names) \cup Elements(b.file_names)
                         = Elements(after.file_names)
                  /\ after.special = (a.special \/ b.special)
                  /\ after.start_time = a.start_time
                  /\ track.objs[track.arg] = b

\* A second append of the same special track b of 1000 m with one polyline
\* to a track a of 1000 m with one polyline: a ends with three file names,
\* three polylines and 3000 m.
C20_Witness ==
    /\ Appended /\ track.err = NoError
    /\ Len(track.pre[track.self].file_names) = 2
    /\ track.pre[track.arg].special
    /\ track.pre[track.arg].length_meters = RatInt(1000)
    /\ Len(track.pre[track.arg].polylines) = 1
    /\ track.objs[track.self].special
    /\ track.objs[track.self].length_meters = RatInt(3000)
    /\ Len(track.objs[track.self].polylines) = 3
    /\ Len(track.objs[track.self].file_names) = 3

TimesSet(t) == t.start_time # None /\ t.end_time # None
StartsBeforeEnd(t) == RatLe(t.start_time, t.end_time)

\* C21: for two tracks a and b with both times set, after a.append(b) the
\* end time of a is not earlier than a's end time before the call and not
\* earlier than b's end time, and start <= end holds for a if it held for a
\* and for b before the call.
C21_AppendExtendsEnd ==
    (Appended /\ track.err = NoError) =>
        LET a == track.pre[track.self]
            b == track.pre[track.arg]
            after == track.objs[track.self]
        IN  (TimesSet(a) /\ TimesSet(b)) =>
                /\ RatLe(a.end_time, after.end_time)
                /\ RatLe(b.end_time, after.end_time)
                /\ (StartsBeforeEnd(a) /\ StartsBeforeEnd(b)) => StartsBeforeEnd(after)

---------------------------------------------------------------------------
(* Properties of Track.load_gpx and of Units, checked under SpecLoad *)

Loaded == track.op = "load_gpx"

C27_OneRegistry ==
    [][/\ units'.created <= 1
       /\ units'.assigned <= 1
       /\ units.instance # 0 => units'.instance = units.instance
       /\ track' # track => units' = units]_vars

---------------------------------------------------------------------------
(* Properties of HeatmapDrawer, checked under SpecHeatmap *)

Fetched == heat.op = "fetch_args"

\* C24: after fetch_args returns without error a set radius is > 0 and comes
\* with a set centre; a radius that is not positive, or a radius passed
\* without a centre in the same arguments, is rejected with an error; this
\* holds after any sequence of fetch_args calls on one drawer.
C24_RadiusNeedsCentre ==
    /\ heat.radius # None => RatLt(Zero, heat.radius) /\ heat.center # None
    /\ Fetched =>
          LET radius == heat.arg.heatmap_radius
          IN  /\ (radius # None /\ RatLe(radius, Zero)) => heat.err # NoError
              /\ (radius # None /\ heat.arg.heatmap_center = <<>>) =>
                     heat.err # NoError

\* C30: with automatic line widths get_line_transparencies_and_widths
\* returns, for every diagonal d, three (transparency, width) pairs, each
\* transparency and each width between the value of the lower-border preset
\* and the value of the upper-border preset.
C30_WidthsBetweenPresets ==
    (heat.op = "get_line_transparencies_and_widths" /\ heat.line_width = <<>>) =>
        /\ Len(heat.ret) = 3
        /\ \A i \in 1..3, j \in 1..2 :
              /\ Len(heat.ret[i]) = 2
              /\ RatLe(RatMin(heat.lower[i][j], heat.upper[i][j]), heat.ret[i][j])
              /\ RatLe(heat.ret[i][j], RatMax(heat.lower[i][j], heat.upper[i][j]))

===========================================================================
